---- MODULE Spec2Model ----
(***************************************************************************)
(* Bollinger-band mean-reversion backtester (edoardoCame/bollingerBands).   *)
(*                                                                          *)
(*   SpecCore  : backtest_core, the position state machine                  *)
(*               (modules/backtester/backtest_engine.py)                    *)
(*   SpecWFO   : walk_forward_optimization with its single-threaded grid    *)
(*               search (modules/backtester/walk_forward.py)                *)
(*   SpecGrid  : the two grid search harnesses, optimize_parameters with    *)
(*               its worker pool and _optimize_parameters_wfo               *)
(*   SpecAlloc : the five allocation policies behind                        *)
(*               DynamicPortfolioRebalancer._calculate_weights              *)
(*               (notebooks/risk management/dynamic_portfolio_modules)      *)
(*                                                                          *)
(* Prices are integers in units of one pip fraction; array indices are the  *)
(* 0-based indices of the source.                                           *)
(***************************************************************************)
EXTENDS Integers, Sequences, FiniteSets, TLC

VARIABLES
    \* ---- backtest_core ----
    n,              \* len(midprice)
    bid, ask, midprice, upper_band, lower_band, middle_band,
    friday_close,   \* 1 for a bar in the Friday closing window, else 0
    i,              \* loop index of the scan
    position,       \* 0 = flat, 1 = long, -1 = short
    entry_idx, entry_price,
    trades,         \* list of <<pnl, direction, entry_idx, exit_idx>>
    entries_made,   \* history: how often the scan has set position to 1 or -1
    pc,             \* "scan" | "end" | "done" ("idle" outside SpecCore)
    \* ---- walk_forward_optimization ----
    lookback_days, optimization_interval_days,
    data_length,    \* len(minute_data)
    grid,           \* window_start/stop/step and std_start/stop/step (std in tenths)
    start_idx, period_count,
    wfo_results,    \* the result dictionary
    wpc,            \* "start" | "loop" | "returned" | "raised" ("idle" outside SpecWFO)
    attempt_log,    \* history: per attempted period, its outcome and its two windows
    last_opt,       \* history: the ranked table of the latest grid search
    \* ---- grid search harnesses (arguments: data_length, grid) ----
    harness,        \* "pool": optimize_parameters, "wfo": _optimize_parameters_wfo
    cand_outs,      \* what evaluating each candidate does
    results_df,     \* the returned table
    gpc,            \* "start" | "returned" | "raised" ("idle" outside SpecGrid)
    \* ---- allocation policies of DynamicPortfolioRebalancer ----
    returns_matrix, \* [day][strategy], exact ratios
    current_day, lookback, method,
    weights,        \* the vector _calculate_weights returns
    apc,            \* "start" | "done" ("idle" outside SpecAlloc)
    \* ---- Backtest.__init__ ----
    columns,        \* data.columns of the table given to Backtest(...)
    nan_cols,       \* per row, the columns whose value is missing (NaN)
    data_len,       \* len(self.data) once the constructor stored it (-1 before)
    cpc,            \* "start" | "constructed" | "raised" ("idle" outside SpecCtor)
    \* ---- Backtest._calculate_performance_metrics, print_performance_summary ----
    bt_results,          \* self.results, each trade by its PnL (trade[0])
    performance_metrics, \* self.performance_metrics
    spc,                 \* "ran" | "calculated" | "printed" | "raised" ("idle" outside SpecSummary)
    \* ---- optimize_parameters: the worker pool ----
    max_workers,    \* os.cpu_count() or 1
    minute_cols,    \* columns of the caller's minute_data
    futures,        \* per submitted candidate: state, the worker's own table, its result
    collected,      \* candidates whose result the caller has appended, in that order
    pool_table,     \* the returned table
    ppc,            \* "start" | "mapping" | "returned" | "raised" ("idle" outside SpecPool)
    \* ---- DynamicPortfolioRebalancer.backtest_strategy ----
    dates,               \* self.dates, each date by its weekday() (6 = Sunday)
    bs_lookback_days,    \* the argument lookback_days, reassigned when data is short
    bs_start_idx,        \* start_idx after the search for the first Sunday
    bs_i,                \* the value range(start_idx, n_days, 7) yields next
    rebalance_dates_idx, weights_history,
    portfolio_returns,   \* portfolio_returns[t + 1] here is day t of the source
    portfolio_values,    \* portfolio_value, n_days + 1 entries
    rpc,                 \* "start" | "loop" | "returned" | "raised" ("idle" outside SpecRebalance)
    \* ---- _calculate_weights on two tables that share a window ----
    first_matrix,   \* the first table, kept once the second replaces it
    first_weights,  \* the vector _calculate_weights returned for the first table
    win_pc,         \* "start" | "first" | "other" | "second" ("idle" outside SpecWindow)
    \* ---- calculate_linearity_metrics ----
    lin_values,     \* the argument portfolio_values of calculate_linearity_metrics
    lin_metrics,    \* the dictionary it returns
    lpc,            \* "start" | "done" ("idle" outside SpecLinearity)
    \* ---- Backtest._prepare_friday_close_array ----
    fri_index,      \* self.data.index: per row its timestamp <<date, minute of the day>>
    fri_is_datetime,\* isinstance(self.data.index, pd.DatetimeIndex)
    friday_flags,   \* the array _prepare_friday_close_array returns
    fpc,            \* "start" | "done" ("idle" outside SpecFriday)
    \* ---- apply_rolling_drawdown_filter ----
    flt_balance,    \* df_temp['BALANCE'], rows 0 .. flt_len - 1
    flt_len,        \* len(df_temp)
    window_days, stop_threshold_usd,
    restart_multiplier,      \* a ratio <<numerator, denominator>>
    flt_i,                   \* loop index of the filter
    is_active, balance_when_stopped, current_active_balance,
    restart_next_period,
    adjusted_balance,        \* df_temp['adjusted_balance']
    active_col,              \* df_temp['active']
    flt_pc,         \* "loop" | "done" ("idle" outside SpecFilter)
    \* ---- backtest_core of notebooks/backtester ----
    nb_position,    \* position of the notebooks copy, run on the same arrays
    nb_entry_idx, nb_entry_price,
    nb_trades,      \* trades of the notebooks copy
    tpc             \* "scan" | "end" | "done" ("idle" outside SpecTwin)

coreVars == <<n, bid, ask, midprice, upper_band, lower_band, middle_band,
              friday_close, i, position, entry_idx, entry_price, trades,
              entries_made, pc>>

wfoVars == <<lookback_days, optimization_interval_days, data_length, grid,
             start_idx, period_count, wfo_results, wpc, attempt_log, last_opt>>

gridVars == <<harness, cand_outs, results_df, gpc>>

allocVars == <<returns_matrix, current_day, lookback, method, weights, apc>>

ctorVars == <<columns, nan_cols, data_len, cpc>>

sumVars == <<bt_results, performance_metrics, spc>>

poolVars == <<max_workers, minute_cols, futures, collected, pool_table, ppc>>

rebVars == <<dates, bs_lookback_days, bs_start_idx, bs_i, rebalance_dates_idx,
            weights_history, portfolio_returns, portfolio_values, rpc>>

winVars == <<first_matrix, first_weights, win_pc>>

linVars == <<lin_values, lin_metrics, lpc>>

friVars == <<fri_index, fri_is_datetime, friday_flags, fpc>>

filtVars == <<flt_balance, flt_len, window_days, stop_threshold_usd, restart_multiplier, flt_i, is_active, balance_when_stopped, current_active_balance, restart_next_period, adjusted_balance, active_col, flt_pc>>

nbVars == <<nb_position, nb_entry_idx, nb_entry_price, nb_trades, tpc>>

vars == <<coreVars, wfoVars, gridVars, allocVars, ctorVars, sumVars, poolVars, rebVars, winVars, linVars, friVars, filtVars, nbVars>>

(***************************************************************************)
(* Bounds and input alphabets                                               *)
(***************************************************************************)
MaxBars == 5

MinRows == 3

HalfSpread == 1

PipFactor == 10000

\* One bar of band input: <<midprice, lower_band, middle_band, upper_band>>.
\* Three bars with ordered bands (mid below, inside, above the bands) and one
\* bar whose bands are inverted, on which mid is below the lower band and
\* above the upper band at once.
BarShapes == { <<0, 1, 2, 3>>, <<2, 1, 2, 3>>, <<4, 1, 2, 3>>, <<2, 3, 2, 1>> }

(***************************************************************************)
(* backtest_core                                                            *)
(***************************************************************************)
\* Trade tuple fields (PnL, Direction, Entry_idx, Exit_idx)
PnlOf(t) == t[1]

DirOf(t) == t[2]

EntryOf(t) == t[3]

ExitOf(t) == t[4]

\* Mutant: the long entry no longer asks where the previous bar was.
LongEntrySignal_NoCross(k) == midprice[k] < lower_band[k]

LongEntrySignal(k) ==
    midprice[k-1] > lower_band[k-1] /\ midprice[k] < lower_band[k]

ShortEntrySignal(k) ==
    midprice[k-1] < upper_band[k-1] /\ midprice[k] > upper_band[k]

ExitLongSignal(k) ==
    midprice[k-1] < middle_band[k-1] /\ midprice[k] > middle_band[k]

ExitShortSignal(k) ==
    midprice[k-1] > middle_band[k-1] /\ midprice[k] < middle_band[k]

\* A plausible slip: the entry is booked on the signal bar itself.
EntryIdxAt_NoLag(k) == k

\* entry_idx = i + 1  (enter at next bar)
EntryIdxAt(k) == k + 1

\* Mutant: the normal exit is booked on the signal bar itself.
ExitIdxAt_NoLag(k) == k

\* exit_idx = i + 1 of the normal exits
ExitIdxAt(k) == k + 1

\* Mutant: the forced close takes the one-bar lag of the normal exits.
FridayExitIdxAt_Lagged(k) == k + 1

\* exit_idx = i of the Friday forced close
FridayExitIdxAt(k) == k

\* pnl = (exit_price - entry_price) * 10000, long: sell at bid
LongTrade(eprice, eidx, xidx) ==
    << (bid[xidx] - eprice) * PipFactor, 1, eidx, xidx >>

\* Mutant: the short is bought back at the bid.
ShortTrade_AtBid(eprice, eidx, xidx) ==
    << (eprice - bid[xidx]) * PipFactor, -1, eidx, xidx >>

\* pnl = (entry_price - exit_price) * 10000, short: buy at ask
ShortTrade(eprice, eidx, xidx) ==
    << (eprice - ask[xidx]) * PipFactor, -1, eidx, xidx >>

CloseTrade(pos, eprice, eidx, xidx) ==
    IF pos = 1 THEN LongTrade(eprice, eidx, xidx)
               ELSE ShortTrade(eprice, eidx, xidx)

\* Mutant: a close emits its trade but leaves the position open.
FlatAfterClose_StaysOpen(pos) == pos

\* position after a close (normal or forced)
FlatAfterClose(pos) == 0

\* The state (position, entry_idx, entry_price, trades) after the loop body
\* has run on bar k.
ScanResult(k) ==
    LET is_friday_close_period == (friday_close[k] = 1)
        flat(ts) == [position |-> FlatAfterClose(position),
                     entry_idx |-> IF FlatAfterClose(position) = 0 THEN -1 ELSE entry_idx,
                     entry_price |-> IF FlatAfterClose(position) = 0 THEN 0 ELSE entry_price,
                     trades |-> ts]
        same == [position |-> position, entry_idx |-> entry_idx,
                 entry_price |-> entry_price, trades |-> trades]
    IN
    IF is_friday_close_period /\ position # 0 /\ FridayExitIdxAt(k) < n
    THEN flat(Append(trades,
              CloseTrade(position, entry_price, entry_idx, FridayExitIdxAt(k))))
    ELSE IF position = 0 /\ ~is_friday_close_period
    THEN IF LongEntrySignal(k)
         THEN [position |-> 1, entry_idx |-> EntryIdxAt(k),
               entry_price |-> IF EntryIdxAt(k) < n THEN ask[EntryIdxAt(k)]
                                                    ELSE entry_price,
               trades |-> trades]
         ELSE IF ShortEntrySignal(k)
         THEN [position |-> -1, entry_idx |-> EntryIdxAt(k),
               entry_price |-> IF EntryIdxAt(k) < n THEN bid[EntryIdxAt(k)]
                                                    ELSE entry_price,
               trades |-> trades]
         ELSE same
    ELSE IF position = 1
    THEN IF ExitLongSignal(k)
         THEN flat(IF ExitIdxAt(k) < n
                   THEN Append(trades, LongTrade(entry_price, entry_idx, ExitIdxAt(k)))
                   ELSE trades)
         ELSE same
    ELSE IF position = -1
    THEN IF ExitShortSignal(k)
         THEN flat(IF ExitIdxAt(k) < n
                   THEN Append(trades, ShortTrade(entry_price, entry_idx, ExitIdxAt(k)))
                   ELSE trades)
         ELSE same
    ELSE same

\* Mutant: a position entered on the last bar is not closed at the end.
EndResult_DropsLastBarEntry ==
    IF position = 1 /\ entry_idx < n - 1
    THEN Append(trades, LongTrade(entry_price, entry_idx, n - 1))
    ELSE IF position = -1 /\ entry_idx < n - 1
    THEN Append(trades, ShortTrade(entry_price, entry_idx, n - 1))
    ELSE trades

\* The trade list after the end-of-data handling that follows the loop.
EndResult ==
    IF position = 1 /\ entry_idx < n
    THEN Append(trades, LongTrade(entry_price, entry_idx, n - 1))
    ELSE IF position = -1 /\ entry_idx < n
    THEN Append(trades, ShortTrade(entry_price, entry_idx, n - 1))
    ELSE trades

CoreIdle ==
    /\ n = 0
    /\ bid = << >> /\ ask = << >> /\ midprice = << >>
    /\ upper_band = << >> /\ lower_band = << >> /\ middle_band = << >>
    /\ friday_close = << >>
    /\ i = 0 /\ position = 0 /\ entry_idx = -1 /\ entry_price = 0
    /\ trades = << >>
    /\ entries_made = 0
    /\ pc = "idle"

WfoIdle ==
    /\ lookback_days = 0 /\ optimization_interval_days = 0 /\ data_length = 0
    /\ grid = << >>
    /\ start_idx = 0 /\ period_count = 0
    /\ wfo_results = << >>
    /\ wpc = "idle"
    /\ attempt_log = << >>
    /\ last_opt = << >>

GridIdle ==
    /\ harness = "none" /\ cand_outs = << >> /\ results_df = << >> /\ gpc = "idle"

AllocIdle ==
    /\ returns_matrix = << >> /\ current_day = 0 /\ lookback = 0
    /\ method = "none" /\ weights = << >> /\ apc = "idle"

CtorIdle ==
    /\ columns = {} /\ nan_cols = << >> /\ data_len = -1 /\ cpc = "idle"

SumIdle ==
    /\ bt_results = << >> /\ performance_metrics = << >> /\ spc = "idle"

PoolIdle ==
    /\ max_workers = 0 /\ minute_cols = {} /\ futures = << >>
    /\ collected = << >> /\ pool_table = << >> /\ ppc = "idle"

RebIdle ==
    /\ dates = << >> /\ bs_lookback_days = 0 /\ bs_start_idx = 0 /\ bs_i = 0
    /\ rebalance_dates_idx = << >> /\ weights_history = << >>
    /\ portfolio_returns = << >> /\ portfolio_values = << >> /\ rpc = "idle"

WinIdle ==
    /\ first_matrix = << >> /\ first_weights = << >> /\ win_pc = "idle"

LinIdle ==
    /\ lin_values = << >> /\ lin_metrics = << >> /\ lpc = "idle"

FriIdle ==
    /\ fri_index = << >> /\ fri_is_datetime = FALSE /\ friday_flags = << >>
    /\ fpc = "idle"

FiltIdle ==
    /\ flt_balance = << >> /\ flt_len = 0 /\ window_days = 0
    /\ stop_threshold_usd = 0 /\ restart_multiplier = << >>
    /\ flt_i = 0 /\ is_active = FALSE /\ balance_when_stopped = 0
    /\ current_active_balance = 0 /\ restart_next_period = FALSE
    /\ adjusted_balance = << >> /\ active_col = << >>
    /\ flt_pc = "idle"

NbIdle ==
    /\ nb_position = 0 /\ nb_entry_idx = -1 /\ nb_entry_price = 0
    /\ nb_trades = << >> /\ tpc = "idle"

\* State at the top of `for i in range(1, n - 1)`, for any input arrays.
CoreInit ==
    /\ WfoIdle
    /\ NbIdle
    /\ FiltIdle
    /\ FriIdle
    /\ LinIdle
    /\ WinIdle
    /\ RebIdle
    /\ PoolIdle
    /\ SumIdle
    /\ CtorIdle
    /\ GridIdle
    /\ AllocIdle
    /\ n \in MinRows..MaxBars
    /\ \E shape \in [0..(n-1) -> BarShapes] :
          /\ midprice    = [k \in 0..(n-1) |-> shape[k][1]]
          /\ lower_band  = [k \in 0..(n-1) |-> shape[k][2]]
          /\ middle_band = [k \in 0..(n-1) |-> shape[k][3]]
          /\ upper_band  = [k \in 0..(n-1) |-> shape[k][4]]
          /\ bid = [k \in 0..(n-1) |-> shape[k][1] - HalfSpread]
          /\ ask = [k \in 0..(n-1) |-> shape[k][1] + HalfSpread]
    /\ friday_close \in [0..(n-1) -> {0, 1}]
    /\ i = 1
    /\ position = 0
    /\ entry_idx = -1
    /\ entry_price = 0
    /\ trades = << >>
    /\ entries_made = 0
    /\ pc = IF 1 <= n - 2 THEN "scan" ELSE "end"

\* One iteration of the scan loop.
ScanBar ==
    /\ pc = "scan"
    /\ i <= n - 2
    /\ LET r == ScanResult(i) IN
          /\ position' = r.position
          /\ entry_idx' = r.entry_idx
          /\ entry_price' = r.entry_price
          /\ trades' = r.trades
          /\ entries_made' = IF position = 0 /\ r.position # 0
                              THEN entries_made + 1 ELSE entries_made
    /\ i' = i + 1
    /\ pc' = IF i + 1 <= n - 2 THEN "scan" ELSE "end"
    /\ UNCHANGED <<n, bid, ask, midprice, upper_band, lower_band, middle_band,
                   friday_close>>
    /\ UNCHANGED <<wfoVars, gridVars, allocVars, ctorVars, sumVars, poolVars, rebVars, winVars, linVars, friVars, filtVars, nbVars>>

\* The forced close of a still-open position and the return.
EndOfData ==
    /\ pc = "end"
    /\ trades' = EndResult
    /\ pc' = "done"
    /\ UNCHANGED <<n, bid, ask, midprice, upper_band, lower_band, middle_band,
                   friday_close, i, position, entry_idx, entry_price,
                   entries_made>>
    /\ UNCHANGED <<wfoVars, gridVars, allocVars, ctorVars, sumVars, poolVars, rebVars, winVars, linVars, friVars, filtVars, nbVars>>

CoreNext == ScanBar \/ EndOfData

SpecCore == CoreInit /\ [][CoreNext]_vars

(***************************************************************************)
(* Claims about backtest_core (checked under SpecCore)                      *)
(***************************************************************************)
LastTrade == trades[Len(trades)]

\* C1: every Trade in the returned list has entryIndex < exitIndex and
\* direction in {+1, -1}, forced closes included.  (Stated as claimed; the
\* forced closes emit trades with entryIndex = exitIndex.)
C1_EntryBeforeExit ==
    \A k \in 1..Len(trades) :
        /\ EntryOf(trades[k]) < ExitOf(trades[k])
        /\ DirOf(trades[k]) \in {1, -1}

\* C2: on a scanned bar i flagged Friday-closing while a position is open,
\* exactly one Trade is appended, with exitIndex = i and priced at bar i's own
\* bid (Long) or ask (Short); the position is Flat afterwards and no entry is
\* made on bar i.
C2_FridayForcedClose ==
    [][ (pc = "scan" /\ friday_close[i] = 1 /\ position # 0) =>
          /\ Len(trades') = Len(trades) + 1
          /\ SubSeq(trades', 1, Len(trades)) = trades
          /\ ExitOf(trades'[Len(trades')]) = i
          /\ EntryOf(trades'[Len(trades')]) = entry_idx
          /\ DirOf(trades'[Len(trades')]) = position
          /\ PnlOf(trades'[Len(trades')]) =
                IF position = 1 THEN (bid[i] - entry_price) * PipFactor
                                ELSE (entry_price - ask[i]) * PipFactor
          /\ position' = 0
          /\ entry_idx' = -1
      ]_vars

\* A forced close has just happened on a flagged bar: the last trade exits on
\* the bar just scanned, that bar is flagged, the exit cross of the trade's
\* direction did not occur on the bar before it, and the position was opened
\* on an earlier bar.
C2_Witness ==
    /\ pc # "done"
    /\ Len(trades) > 0
    /\ i = ExitOf(LastTrade) + 1
    /\ friday_close[ExitOf(LastTrade)] = 1
    /\ EntryOf(LastTrade) < ExitOf(LastTrade)
    /\ ~(IF DirOf(LastTrade) = 1 THEN ExitLongSignal(ExitOf(LastTrade) - 1)
                                 ELSE ExitShortSignal(ExitOf(LastTrade) - 1))
    /\ position = 0

\* C3: no Trade has its Entry_idx on a bar flagged as inside the Friday
\* closing window.  (Stated as claimed; an entry signalled on the bar before
\* the window is executed on the window's first bar.)
C3_NoEntryInFridayWindow ==
    \A k \in 1..Len(trades) : friday_close[EntryOf(trades[k])] # 1

\* C4: the position is always one of Flat, Long, Short, and the trades are in
\* time order and never overlap: exitIndex(k) <= entryIndex(k+1).
C4_OnePositionNoOverlap ==
    /\ position \in {0, 1, -1}
    /\ (position = 0) <=> (entry_idx = -1)
    /\ \A k \in 1..(Len(trades) - 1) :
          ExitOf(trades[k]) <= EntryOf(trades[k+1])

\* A finished run that returned two trades, the first held over a bar and
\* the second opened after the first was closed.
C4_Witness ==
    /\ pc = "done"
    /\ Len(trades) >= 2
    /\ EntryOf(trades[1]) < ExitOf(trades[1])
    /\ ExitOf(trades[1]) < EntryOf(trades[2])

(***************************************************************************)
(* PerformanceSummary: Backtest._calculate_performance_metrics              *)
(* Ratios are kept exact as <<numerator, denominator>>.                     *)
(***************************************************************************)
Rat(a, b) == <<a, b>>

RECURSIVE SumSeq(_)
SumSeq(s) == IF s = << >> THEN 0 ELSE s[1] + SumSeq(Tail(s))

MaxOf(S) == CHOOSE x \in S : \A y \in S : y <= x

MinOf(S) == CHOOSE x \in S : \A y \in S : x <= y

\* np.cumsum
CumSum(s) == [k \in 1..Len(s) |-> SumSeq(SubSeq(s, 1, k))]

\* np.maximum.accumulate
RunningMax(c) == [k \in 1..Len(c) |-> MaxOf({c[j] : j \in 1..k})]

\* A plausible slip: the running maximum starts from the zero equity before
\* the first trade.
MaxDrawdown_FromZero(pnl_values) ==
    LET cumulative_pnl == CumSum(pnl_values)
    IN  IF pnl_values = << >> THEN 0
        ELSE MaxOf({ MaxOf({0} \cup {cumulative_pnl[j] : j \in 1..k})
                       - cumulative_pnl[k] : k \in 1..Len(pnl_values) })

\* max over t of running_max[t] - cumulative_pnl[t]
MaxDrawdown(pnl_values) ==
    LET cumulative_pnl == CumSum(pnl_values)
        running_max == RunningMax(cumulative_pnl)
    IN  IF pnl_values = << >> THEN 0
        ELSE MaxOf({running_max[k] - cumulative_pnl[k] : k \in 1..Len(pnl_values)})

\* sum(1 for pnl in pnl_values if pnl > 0)
CountWinning(s) == Cardinality({k \in 1..Len(s) : s[k] > 0})

\* sum(1 for pnl in pnl_values if pnl < 0)
CountLosing(s) == Cardinality({k \in 1..Len(s) : s[k] < 0})

PerformanceMetrics(pnl_values) ==
    IF pnl_values = << >>
    THEN [total_trades |-> 0, total_pnl |-> 0, average_trade |-> Rat(0, 1),
          win_rate |-> Rat(0, 1), max_drawdown |-> 0,
          winning_trades |-> 0, losing_trades |-> 0]
    ELSE LET total_trades == Len(pnl_values)
             total_pnl == SumSeq(pnl_values)
             winning_trades == CountWinning(pnl_values)
             losing_trades == CountLosing(pnl_values)
         IN [total_trades |-> total_trades,
             total_pnl |-> total_pnl,
             average_trade |-> Rat(total_pnl, total_trades),
             win_rate |-> Rat(winning_trades * 100, total_trades),
             max_drawdown |-> MaxDrawdown(pnl_values),
             winning_trades |-> winning_trades,
             losing_trades |-> losing_trades,
             best_trade |-> MaxOf({pnl_values[k] : k \in 1..Len(pnl_values)}),
             worst_trade |-> MinOf({pnl_values[k] : k \in 1..Len(pnl_values)})]

(***************************************************************************)
(* Grid search of the walk-forward evaluator: _optimize_parameters_wfo      *)
(***************************************************************************)
MinutesPerDay == 1440

\* `len(df) <= 50`: candidates with at most this many usable rows are rejected
MinRowsWfo == 50

\* `len(trade_data_with_bands) < 10`
MinTradeRows == 10

\* np.arange(start, stop, step) for step > 0
RECURSIVE Arange(_, _, _)
Arange(start, stop, step) ==
    IF start >= stop THEN << >>
    ELSE <<start>> \o Arange(start + step, stop, step)

\* [{'window': w, 'num_std_dev': s} for w in window_range for s in std_range]
ParametersToTest(g) ==
    LET window_range == Arange(g.window_start, g.window_stop + g.window_step, g.window_step)
        std_range == Arange(g.std_start, g.std_stop + g.std_step, g.std_step)
        nw == Len(window_range)
        ns == Len(std_range)
    IN  [k \in 1..(nw * ns) |->
            [window |-> window_range[((k - 1) \div ns) + 1],
             num_std_dev |-> std_range[((k - 1) % ns) + 1]]]

\* rolling(window=w) rejects a negative window with a ValueError
BandsRaise(w) == w < 0

\* Rows left by bollinger_bands(data, window=w).dropna() on `len` complete
\* rows: the rolling mean is missing on the first w-1 rows, and the rolling
\* standard deviation (ddof=1) on every row when w < 2.
BandRows(len, w) ==
    IF w < 2 THEN 0
    ELSE IF len - w + 1 > 0 THEN len - w + 1 ELSE 0

ZeroRow(w, s) ==
    [window |-> w, num_std_dev |-> s, total_trades |-> 0, total_pnl |-> 0,
     win_rate |-> Rat(0, 1), max_drawdown |-> 0]

MetricsRow(w, s, m) ==
    [window |-> w, num_std_dev |-> s, total_trades |-> m.total_trades,
     total_pnl |-> m.total_pnl, win_rate |-> m.win_rate,
     max_drawdown |-> m.max_drawdown]

\* Whether the candidate reaches `bt.run()` and returns from it: `out` is
\* what evaluating it does, [fault |-> an exception is raised, pnls |-> the
\* PnLs of the backtest's trades].
WfoBacktested(w, len, out) ==
    ~BandsRaise(w) /\ ~out.fault /\ BandRows(len, w) > MinRowsWfo

\* Whether the candidate is turned down by `if len(df) <= 50`.
WfoRejected(w, len, out) ==
    ~BandsRaise(w) /\ ~out.fault /\ BandRows(len, w) <= MinRowsWfo

\* Body of `for params in tqdm(parameters_to_test)`: the row of one candidate.
WfoCandidateRow(w, s, len, out) ==
    IF BandsRaise(w) \/ out.fault THEN ZeroRow(w, s)
    ELSE IF BandRows(len, w) <= MinRowsWfo THEN ZeroRow(w, s)
    ELSE MetricsRow(w, s, PerformanceMetrics(out.pnls))

\* results_df.sort_values('total_pnl', ascending=False); rows with equal
\* total_pnl keep their order.
RECURSIVE InsertByPnlDesc(_, _)
InsertByPnlDesc(row, sorted) ==
    IF sorted = << >> THEN <<row>>
    ELSE IF sorted[1].total_pnl >= row.total_pnl
         THEN <<sorted[1]>> \o InsertByPnlDesc(row, Tail(sorted))
         ELSE <<row>> \o sorted

RECURSIVE SortByPnlDesc(_)
SortByPnlDesc(rows) ==
    IF rows = << >> THEN << >>
    ELSE InsertByPnlDesc(rows[Len(rows)], SortByPnlDesc(SubSeq(rows, 1, Len(rows) - 1)))

\* _optimize_parameters_wfo on `len` rows.  With no candidate the table has
\* no total_pnl column and sort_values raises; grid_fault is any other
\* exception raised outside the per-candidate try.
OptimizeParametersWfo(len, g, outs, grid_fault) ==
    LET parameters_to_test == ParametersToTest(g)
        results_summary ==
            [k \in 1..Len(parameters_to_test) |->
                WfoCandidateRow(parameters_to_test[k].window,
                                parameters_to_test[k].num_std_dev, len, outs[k])]
    IN  IF grid_fault \/ results_summary = << >>
        THEN [raised |-> TRUE, table |-> << >>, backtested |-> {}, rejected |-> {}]
        ELSE [raised |-> FALSE,
              table |-> SortByPnlDesc(results_summary),
              backtested |->
                 { <<parameters_to_test[k].window, parameters_to_test[k].num_std_dev>> :
                     k \in { j \in 1..Len(parameters_to_test) :
                               WfoBacktested(parameters_to_test[j].window, len, outs[j]) } },
              rejected |->
                 { <<parameters_to_test[k].window, parameters_to_test[k].num_std_dev>> :
                     k \in { j \in 1..Len(parameters_to_test) :
                               WfoRejected(parameters_to_test[j].window, len, outs[j]) } }]

(***************************************************************************)
(* walk_forward_optimization                                                *)
(***************************************************************************)
MaxDays == 2

MaxDataDays == 3

\* Trade PnL lists a backtest may return.
TradeLists == { << >>, <<PipFactor>>, <<-PipFactor, -PipFactor>> }

CandOutcomes == { [fault |-> TRUE, pnls |-> << >>] }
                  \cup { [fault |-> FALSE, pnls |-> t] : t \in { << >>, <<PipFactor>>, <<-PipFactor>> } }

\* Exception raised while a period is processed, and where.
Faults == { "none", "grid", "bands", "backtest" }

Grids ==
    { [window_start |-> 20,  window_stop |-> 20,   window_step |-> 10,
       std_start |-> 10, std_stop |-> 20, std_step |-> 10],     \* {20} x {1.0, 2.0}
      [window_start |-> 20,  window_stop |-> 1400, window_step |-> 1380,
       std_start |-> 20, std_stop |-> 20, std_step |-> 5],      \* {20, 1400} x {2.0}
      [window_start |-> 1436, window_stop |-> 1436, window_step |-> 10,
       std_start |-> 20, std_stop |-> 20, std_step |-> 5],      \* {1436} x {2.0}
      [window_start |-> -10, window_stop |-> 20,   window_step |-> 30,
       std_start |-> 20, std_stop |-> 20, std_step |-> 5],      \* {-10, 20} x {2.0}
      [window_start |-> 30,  window_stop |-> 10,   window_step |-> 10,
       std_start |-> 20, std_stop |-> 20, std_step |-> 5] }     \* no candidate

\* Whole days of minute bars, and one bar more.
DataLengths ==
    { k * MinutesPerDay + d : k \in 0..MaxDataDays, d \in {0, 1} }

lookback_minutes == lookback_days * MinutesPerDay

optimization_interval_minutes == optimization_interval_days * MinutesPerDay

\* minute_data.iloc[a:b] for 0 <= a: the rows [lo, hi) of a table of `len` rows
Iloc(len, a, b) ==
    LET lo == IF a < len THEN a ELSE len
        hi == IF b < len THEN b ELSE len
    IN  [lo |-> lo, hi |-> IF hi < lo THEN lo ELSE hi]

SliceLen(sl) == sl.hi - sl.lo

\* Mutant: the optimization slice runs on into the bars to be traded.
TrainWindow_Lookahead(start) ==
    Iloc(data_length, start - lookback_minutes, start + optimization_interval_minutes)

\* opt_data = minute_data.iloc[opt_start_idx:opt_end_idx]
TrainWindow(start) == Iloc(data_length, start - lookback_minutes, start)

\* trade_data = minute_data.iloc[trade_start_idx:trade_end_idx]
TradeWindow(start) ==
    Iloc(data_length, start,
         IF start + optimization_interval_minutes < data_length
         THEN start + optimization_interval_minutes ELSE data_length)

\* The four appends of a recorded period and the tagged trades.  Timestamps
\* are the row numbers of minute_data: index.min() and index.max() of a slice
\* are its first and last row.
RecordPeriod(res, pcnt, train, trade, best, perf, period_pnls) ==
    [res EXCEPT
       !.optimization_periods =
            Append(@, [start |-> train.lo, end |-> train.hi - 1, period |-> pcnt]),
       !.trading_periods =
            Append(@, [start |-> trade.lo, end |-> trade.hi - 1, period |-> pcnt]),
       !.optimal_parameters =
            Append(@, [period |-> pcnt, window |-> best.window,
                       std_dev |-> best.num_std_dev, opt_pnl |-> best.total_pnl]),
       !.period_performances =
            Append(@, [period |-> pcnt, total_pnl |-> perf.total_pnl,
                       total_trades |-> perf.total_trades,
                       win_rate |-> perf.win_rate,
                       max_drawdown |-> perf.max_drawdown]),
       !.all_trades =
            IF period_pnls = << >> THEN @
            ELSE Append(@, [k \in 1..Len(period_pnls) |->
                              [PnL |-> period_pnls[k], period |-> pcnt]])]

\* Mutant: the exception of a period leaves the call.
OnPeriodError_Abort == "raised"

\* What `except Exception` of the period does with the loop: it goes on.
OnPeriodError == "loop"

\* Mutant: the windows of the period are stored before its work is done.
ResultsOnError_Partial(res, pcnt, train, trade) ==
    [res EXCEPT
       !.optimization_periods =
            Append(@, [start |-> train.lo, end |-> train.hi - 1, period |-> pcnt]),
       !.trading_periods =
            Append(@, [start |-> trade.lo, end |-> trade.hi - 1, period |-> pcnt])]

\* The result dictionary after a period that raised: every append comes
\* after the last statement that can raise, so nothing of it is stored.
ResultsOnError(res, pcnt, train, trade) == res

\* The body of the `while` for one period: [outcome, results, opt].
PeriodResult(pcnt, outs, fault, period_pnls) ==
    LET train == TrainWindow(start_idx)
        trade == TradeWindow(start_idx)
        opt == OptimizeParametersWfo(SliceLen(train), grid, outs, fault = "grid")
        best == opt.table[1]
        skip(why) == [outcome |-> why, results |-> wfo_results, opt |-> opt,
                      next |-> "loop"]
        error == [outcome |-> "error",
                  results |-> ResultsOnError(wfo_results, pcnt, train, trade),
                  opt |-> opt, next |-> OnPeriodError]
    IN  IF opt.raised THEN error
        ELSE IF opt.table = << >> THEN skip("skip_empty")
        ELSE IF fault = "bands" \/ BandsRaise(best.window) THEN error
        ELSE IF BandRows(SliceLen(trade), best.window) < MinTradeRows
             THEN skip("skip_rows")
        ELSE IF fault = "backtest" THEN error
        ELSE [outcome |-> "recorded",
              results |-> RecordPeriod(wfo_results, pcnt, train, trade, best,
                                       PerformanceMetrics(period_pnls), period_pnls),
              opt |-> opt,
              next |-> "loop"]

RECURSIVE Concat(_)
Concat(dfs) == IF dfs = << >> THEN << >> ELSE dfs[1] \o Concat(Tail(dfs))

\* The summary computed after the loop.
Combine(res, pcnt) ==
    IF res.all_trades = << >> THEN res
    ELSE LET combined_trades == Concat(res.all_trades)
             pnls == [k \in 1..Len(combined_trades) |-> combined_trades[k].PnL]
             total_pnl == SumSeq(pnls)
             total_trades == Len(combined_trades)
             winning_trades == CountWinning(pnls)
             losing_trades == CountLosing(pnls)
         IN  [res EXCEPT !.summary_stats =
                 [total_periods |-> pcnt,
                  total_pnl |-> total_pnl,
                  total_trades |-> total_trades,
                  winning_trades |-> winning_trades,
                  losing_trades |-> losing_trades,
                  win_rate |-> IF total_trades > 0
                               THEN Rat(winning_trades * 100, total_trades)
                               ELSE Rat(0, 1),
                  max_drawdown |-> MaxDrawdown(pnls),
                  avg_pnl_per_period |-> IF pcnt > 0 THEN Rat(total_pnl, pcnt)
                                                     ELSE Rat(0, 1)]]
             @@ [combined_trades |-> combined_trades]

\* The call with its arguments, before its first statement.
WfoInit ==
    /\ CoreIdle
    /\ NbIdle
    /\ FiltIdle
    /\ FriIdle
    /\ LinIdle
    /\ WinIdle
    /\ RebIdle
    /\ PoolIdle
    /\ SumIdle
    /\ CtorIdle
    /\ GridIdle
    /\ AllocIdle
    /\ lookback_days \in 0..MaxDays
    /\ optimization_interval_days \in 0..MaxDays
    /\ data_length \in DataLengths
    /\ grid \in Grids
    /\ start_idx = 0
    /\ period_count = 0
    /\ wfo_results = << >>
    /\ wpc = "start"
    /\ attempt_log = << >>
    /\ last_opt = << >>

\* A plausible slip: the length of the data is not validated.
ValidationFails_NoLengthCheck ==
    lookback_days <= 0 \/ optimization_interval_days <= 0

\* The two `raise ValueError` tests before the loop.
ValidationFails ==
    \/ lookback_days <= 0 \/ optimization_interval_days <= 0
    \/ data_length < lookback_minutes

\* Validation of the arguments and the set-up of the loop.
WfoBegin ==
    /\ wpc = "start"
    /\ IF ValidationFails
       THEN /\ wpc' = "raised"
            /\ UNCHANGED <<wfo_results, start_idx>>
       ELSE /\ wpc' = "loop"
            /\ wfo_results' = [optimization_periods |-> << >>,
                               trading_periods |-> << >>,
                               optimal_parameters |-> << >>,
                               period_performances |-> << >>,
                               all_trades |-> << >>,
                               summary_stats |-> << >>]
            /\ start_idx' = lookback_minutes
    /\ UNCHANGED <<lookback_days, optimization_interval_days, data_length, grid,
                   period_count, attempt_log, last_opt>>
    /\ UNCHANGED <<coreVars, gridVars, allocVars, ctorVars, sumVars, poolVars, rebVars, winVars, linVars, friVars, filtVars, nbVars>>

\* Mutant: a skipped period moves the start two intervals on.
AdvanceStart_SkipJumps(start, outcome) ==
    IF outcome \in {"skip_empty", "skip_rows"}
    THEN start + 2 * optimization_interval_minutes
    ELSE start + optimization_interval_minutes

\* `start_idx += optimization_interval_minutes`: before the `continue` of the
\* two skips, and at the end of the body for a recorded or failed period.
AdvanceStart(start, outcome) == start + optimization_interval_minutes

\* One iteration of `while start_idx + optimization_interval_minutes < data_length`.
WfoPeriod ==
    /\ wpc = "loop"
    /\ start_idx + optimization_interval_minutes < data_length
    /\ \E outs \in [1..Len(ParametersToTest(grid)) -> CandOutcomes],
          fault \in Faults, period_pnls \in TradeLists :
          LET r == PeriodResult(period_count + 1, outs, fault, period_pnls) IN
             /\ wfo_results' = r.results
             /\ last_opt' = r.opt
             /\ attempt_log' = Append(attempt_log,
                                  [outcome |-> r.outcome,
                                   train |-> TrainWindow(start_idx),
                                   trade |-> TradeWindow(start_idx)])
             /\ wpc' = r.next
             /\ start_idx' = IF r.next = "loop"
                             THEN AdvanceStart(start_idx, r.outcome)
                             ELSE start_idx
    /\ period_count' = period_count + 1
    /\ UNCHANGED <<lookback_days, optimization_interval_days, data_length, grid>>
    /\ UNCHANGED <<coreVars, gridVars, allocVars, ctorVars, sumVars, poolVars, rebVars, winVars, linVars, friVars, filtVars, nbVars>>

\* The loop condition fails: the trades are combined and the result returned.
WfoFinish ==
    /\ wpc = "loop"
    /\ ~(start_idx + optimization_interval_minutes < data_length)
    /\ wfo_results' = Combine(wfo_results, period_count)
    /\ wpc' = "returned"
    /\ UNCHANGED <<lookback_days, optimization_interval_days, data_length, grid,
                   start_idx, period_count, attempt_log, last_opt>>
    /\ UNCHANGED <<coreVars, gridVars, allocVars, ctorVars, sumVars, poolVars, rebVars, winVars, linVars, friVars, filtVars, nbVars>>

WfoNext == WfoBegin \/ WfoPeriod \/ WfoFinish

SpecWFO == WfoInit /\ [][WfoNext]_vars

\* The calls with a grid that yields no candidate (its empty table makes the
\* sort raise, so the period fails), or the one candidate of window 1436,
\* too wide for a trade slice of one day and not for one of two days: a
\* period of these calls is recorded, skipped for too few rows, or failed.
WfoLiveInit ==
    /\ WfoInit
    /\ grid.window_stop \in {10, 1436}

\* The call is sequential code: a statement that can run does run.
SpecWFOLive == WfoLiveInit /\ [][WfoNext]_vars /\ WF_vars(WfoNext)

(***************************************************************************)
(* Claims about walk_forward_optimization (checked under SpecWFO)           *)
(***************************************************************************)
WfoRunning == wpc \in {"loop", "returned"}

RecordedPeriods ==
    { wfo_results.optimization_periods[k].period :
        k \in 1..Len(wfo_results.optimization_periods) }

\* C5: for every recorded period the trade window starts at the bar index
\* where the training window ends, the training window is the
\* lookback_minutes bars right before it, and the grid search of the period
\* was given exactly the training rows (no row at or after the trade start).
C5_TrainThenTrade ==
    WfoRunning =>
      \A k \in 1..Len(wfo_results.optimization_periods) :
         LET o == wfo_results.optimization_periods[k]
             t == wfo_results.trading_periods[k]
             a == attempt_log[o.period]
         IN  /\ t.start = o.end + 1
             /\ o.end - o.start + 1 = lookback_minutes
             /\ a.train = [lo |-> o.start, hi |-> t.start]
             /\ a.trade.lo = t.start
             /\ a.train.hi <= a.trade.lo

\* Two periods have been recorded.
C5_Witness ==
    /\ wpc = "returned"
    /\ Len(wfo_results.optimization_periods) >= 2

\* C7: an exception raised while a period is processed is a skip: nothing is
\* recorded for that period, the loop advances by one interval exactly as for
\* any other period and runs to the end of the data, and the call fails only
\* in the validation before the first period.
C7_PeriodErrorIsSkip ==
    /\ wpc = "raised" => attempt_log = << >>
    /\ WfoRunning =>
         /\ start_idx = lookback_minutes
                          + Len(attempt_log) * optimization_interval_minutes
         /\ \A p \in 1..Len(attempt_log) :
              attempt_log[p].outcome = "error" =>
                 /\ p \notin RecordedPeriods
                 /\ \A k \in 1..Len(wfo_results.trading_periods) :
                       wfo_results.trading_periods[k].period # p
                 /\ \A k \in 1..Len(wfo_results.optimal_parameters) :
                       wfo_results.optimal_parameters[k].period # p
                 /\ \A k \in 1..Len(wfo_results.period_performances) :
                       wfo_results.period_performances[k].period # p
                 /\ \A d \in 1..Len(wfo_results.all_trades) :
                       \A k \in 1..Len(wfo_results.all_trades[d]) :
                          wfo_results.all_trades[d][k].period # p
    /\ wpc = "returned" =>
         ~(start_idx + optimization_interval_minutes < data_length)

\* The call returned after a period that raised was followed by a recorded one.
C7_Witness ==
    /\ wpc = "returned"
    /\ \E p, q \in 1..Len(attempt_log) :
          /\ p < q
          /\ attempt_log[p].outcome = "error"
          /\ attempt_log[q].outcome = "recorded"

\* C8: the four per-period lists have the same length and carry the same
\* period number at each position, in strictly increasing order, and every
\* trade (per period and combined) is tagged with a recorded period.
C8_ResultsConsistent ==
    WfoRunning =>
      LET r == wfo_results
          len == Len(r.optimization_periods)
      IN  /\ Len(r.trading_periods) = len
          /\ Len(r.optimal_parameters) = len
          /\ Len(r.period_performances) = len
          /\ \A k \in 1..len :
                /\ r.trading_periods[k].period = r.optimization_periods[k].period
                /\ r.optimal_parameters[k].period = r.optimization_periods[k].period
                /\ r.period_performances[k].period = r.optimization_periods[k].period
          /\ \A k \in 1..(len - 1) :
                r.optimization_periods[k].period < r.optimization_periods[k+1].period
          /\ \A d \in 1..Len(r.all_trades) :
                \A k \in 1..Len(r.all_trades[d]) :
                   r.all_trades[d][k].period \in RecordedPeriods
          /\ "combined_trades" \in DOMAIN r =>
                \A k \in 1..Len(r.combined_trades) :
                   r.combined_trades[k].period \in RecordedPeriods

\* The call returned with a failed, a skipped or a recorded period in any
\* order: a recorded period with trades, and an attempt that recorded nothing.
C8_Witness ==
    /\ wpc = "returned"
    /\ "combined_trades" \in DOMAIN wfo_results
    /\ \E p, q \in 1..Len(attempt_log) :
          /\ attempt_log[p].outcome \in {"error", "skip_rows"}
          /\ attempt_log[q].outcome = "recorded"

\* C12: the call raises its validation error exactly when lookback_days <= 0,
\* optimization_interval_days <= 0 or the data has fewer bars than the
\* lookback, and then no period has been evaluated; with valid arguments it
\* never raises, also when it evaluates no period at all.
C12_FailFastValidation ==
    wpc # "start" =>
       /\ wpc = "raised" <=>
             (\/ lookback_days <= 0
              \/ optimization_interval_days <= 0
              \/ data_length < lookback_days * MinutesPerDay)
       /\ wpc = "raised" => (period_count = 0 /\ attempt_log = << >>)

\* The call was refused for data shorter than a positive lookback.
C12_Witness ==
    /\ wpc = "raised"
    /\ lookback_days > 0
    /\ optimization_interval_days > 0
    /\ data_length < lookback_days * MinutesPerDay

\* C10: a candidate rejected for too few rows is never the top-ranked
\* candidate when another candidate was actually backtested.  (Stated as
\* claimed; the rejected candidate's zero row is ranked with the others and
\* comes first when every backtested candidate has a negative total_pnl.)
C10_RejectedNeverTop ==
    (WfoRunning /\ attempt_log # << >> /\ ~last_opt.raised
       /\ last_opt.backtested # {}) =>
         <<last_opt.table[1].window, last_opt.table[1].num_std_dev>>
            \notin last_opt.rejected

(***************************************************************************)
(* The worker-pool grid search: process_params_worker, optimize_parameters  *)
(***************************************************************************)
\* `len(df) <= 100` of the worker
MinRowsPool == 100

\* process_params_worker has no try: an exception of the band computation or
\* of the backtest leaves the worker.
PoolWorkerRaises(w, out) == BandsRaise(w) \/ out.fault

\* The record a worker returns when it does not raise.
PoolCandidateRow(w, s, len, out) ==
    IF BandRows(len, w) <= MinRowsPool THEN ZeroRow(w, s)
    ELSE MetricsRow(w, s, PerformanceMetrics(out.pnls))

\* optimize_parameters on `len` rows.  Iterating executor.map re-raises the
\* exception of a worker in the caller, which has no handler; with no
\* candidate the table has no total_pnl column and sort_values raises.
OptimizeParametersPool(len, g, outs) ==
    LET parameters_to_test == ParametersToTest(g)
        results_summary ==
            [k \in 1..Len(parameters_to_test) |->
                PoolCandidateRow(parameters_to_test[k].window,
                                 parameters_to_test[k].num_std_dev, len, outs[k])]
    IN  IF \/ \E k \in 1..Len(parameters_to_test) :
                 PoolWorkerRaises(parameters_to_test[k].window, outs[k])
           \/ results_summary = << >>
        THEN [raised |-> TRUE, table |-> << >>]
        ELSE [raised |-> FALSE, table |-> SortByPnlDesc(results_summary)]

GridDataLengths == { 40, 80, 200, MinutesPerDay }

\* A call of one of the two harnesses with its arguments.
GridInit ==
    /\ CoreIdle
    /\ NbIdle
    /\ FiltIdle
    /\ FriIdle
    /\ LinIdle
    /\ WinIdle
    /\ RebIdle
    /\ PoolIdle
    /\ SumIdle
    /\ CtorIdle
    /\ AllocIdle
    /\ lookback_days = 0 /\ optimization_interval_days = 0
    /\ start_idx = 0 /\ period_count = 0 /\ wfo_results = << >>
    /\ wpc = "idle" /\ attempt_log = << >> /\ last_opt = << >>
    /\ data_length \in GridDataLengths
    /\ grid \in Grids
    /\ harness \in {"pool", "wfo"}
    /\ cand_outs \in [1..Len(ParametersToTest(grid)) -> CandOutcomes]
    /\ results_df = << >>
    /\ gpc = "start"

\* optimize_parameters, from its call to its return or its exception.
RunPoolGrid ==
    /\ gpc = "start"
    /\ harness = "pool"
    /\ LET r == OptimizeParametersPool(data_length, grid, cand_outs) IN
          /\ results_df' = r.table
          /\ gpc' = IF r.raised THEN "raised" ELSE "returned"
    /\ UNCHANGED <<harness, cand_outs, coreVars, wfoVars, allocVars, ctorVars, sumVars, poolVars, rebVars, winVars, linVars, friVars, filtVars, nbVars>>

\* _optimize_parameters_wfo, from its call to its return or its exception.
RunWfoGrid ==
    /\ gpc = "start"
    /\ harness = "wfo"
    /\ LET r == OptimizeParametersWfo(data_length, grid, cand_outs, FALSE) IN
          /\ results_df' = r.table
          /\ gpc' = IF r.raised THEN "raised" ELSE "returned"
    /\ UNCHANGED <<harness, cand_outs, coreVars, wfoVars, allocVars, ctorVars, sumVars, poolVars, rebVars, winVars, linVars, friVars, filtVars, nbVars>>

GridNext == RunPoolGrid \/ RunWfoGrid

SpecGrid == GridInit /\ [][GridNext]_vars

(***************************************************************************)
(* Claims about the grid search harnesses (checked under SpecGrid)          *)
(***************************************************************************)
CandidateFails(k) ==
    LET c == ParametersToTest(grid)[k] IN BandsRaise(c.window) \/ cand_outs[k].fault

RowsOf(w, s) ==
    { k \in 1..Len(results_df) :
        results_df[k].window = w /\ results_df[k].num_std_dev = s }

\* C9: in both harnesses a failure while evaluating one candidate becomes a
\* zero row for that candidate; the sweep is not aborted and every candidate
\* gets its row.  (Stated as claimed; the worker of optimize_parameters has
\* no handler and its exception ends the sweep.)
C9_CandidateFailureContained ==
    (gpc \in {"returned", "raised"} /\ ParametersToTest(grid) # << >>) =>
       /\ gpc = "returned"
       /\ \A k \in 1..Len(ParametersToTest(grid)) :
             LET c == ParametersToTest(grid)[k] IN
                /\ Cardinality(RowsOf(c.window, c.num_std_dev)) = 1
                /\ CandidateFails(k) =>
                     \A j \in RowsOf(c.window, c.num_std_dev) :
                        results_df[j] = ZeroRow(c.window, c.num_std_dev)

\* C15: the grid search returns a table with exactly one row for every
\* candidate of the grid, in descending order of total_pnl (strictly
\* descending when the candidates' totals differ).  (Stated as claimed; a
\* sweep of optimize_parameters with a failing candidate, and a sweep of
\* either harness over a grid without candidates, return no table.)
C15_OneRowPerCandidateSorted ==
    gpc \in {"returned", "raised"} =>
       /\ gpc = "returned"
       /\ Len(results_df) = Len(ParametersToTest(grid))
       /\ \A k \in 1..Len(ParametersToTest(grid)) :
             LET c == ParametersToTest(grid)[k] IN
                Cardinality(RowsOf(c.window, c.num_std_dev)) = 1
       /\ \A k \in 1..(Len(results_df) - 1) :
             results_df[k].total_pnl >= results_df[k+1].total_pnl

(***************************************************************************)
(* Exact ratios <<num, den>> (den > 0, lowest terms) standing for the       *)
(* floating-point numbers of the allocation policies                        *)
(***************************************************************************)
RECURSIVE Gcd(_, _)
Gcd(a, b) == IF b = 0 THEN a ELSE Gcd(b, a % b)

Abs(x) == IF x < 0 THEN -x ELSE x

Reduce(a, b) ==
    LET g == Gcd(Abs(a), Abs(b))
        sgn == IF b < 0 THEN -1 ELSE 1
    IN  <<(sgn * a) \div g, (sgn * b) \div g>>

Zero == <<0, 1>>

One == <<1, 1>>

RAdd(x, y) == Reduce(x[1] * y[2] + y[1] * x[2], x[2] * y[2])

RSub(x, y) == Reduce(x[1] * y[2] - y[1] * x[2], x[2] * y[2])

RMul(x, y) == Reduce(x[1] * y[1], x[2] * y[2])

RDiv(x, y) == Reduce(x[1] * y[2], x[2] * y[1])

RLt(x, y) == x[1] * y[2] < y[1] * x[2]

RPos(x) == x[1] > 0

\* np.sum
RECURSIVE RSum(_)
RSum(s) == IF s = << >> THEN Zero ELSE RAdd(s[1], RSum(Tail(s)))

\* np.prod(1 + column)
RECURSIVE ProdOnePlus(_)
ProdOnePlus(s) ==
    IF s = << >> THEN One ELSE RMul(RAdd(One, s[1]), ProdOnePlus(Tail(s)))

\* np.min / np.max of a non-empty array
RMin(s) == s[CHOOSE k \in 1..Len(s) : \A j \in 1..Len(s) : ~RLt(s[j], s[k])]

RMax(s) == s[CHOOSE k \in 1..Len(s) : \A j \in 1..Len(s) : ~RLt(s[k], s[j])]

\* Square root of a ratio that is the square of a ratio.
ISqrt(x) == CHOOSE k \in 0..x : k * k = x

RSqrt(q) == <<ISqrt(q[1]), ISqrt(q[2])>>

\* np.mean
NpMean(col) == RDiv(RSum(col), <<Len(col), 1>>)

\* np.std (population standard deviation, ddof = 0)
NpStd(col) ==
    LET m == NpMean(col)
        sq == [k \in 1..Len(col) |-> RMul(RSub(col[k], m), RSub(col[k], m))]
    IN  RSqrt(NpMean(sq))

(***************************************************************************)
(* Allocation policies: dynamic_portfolio_modules/utils.py and              *)
(* DynamicPortfolioRebalancer._calculate_weights                            *)
(***************************************************************************)
\* n_top = 5, the default of calculate_top_n_ranking_weights
NTop == 5

\* returns_matrix.shape[1], len(self.strategy_names)
n_assets == Len(returns_matrix[1])

\* A plausible slip: equal weights stand in for "no strategy qualifies".
Zeros_EqualFallback(cnt) == [k \in 1..cnt |-> Reduce(1, cnt)]

\* np.zeros(cnt)
Zeros(cnt) == [k \in 1..cnt |-> Zero]

\* A plausible slip: np.ones(cnt) without the division by cnt.
EqualOnes_NotDivided(cnt) == [k \in 1..cnt |-> One]

\* np.ones(cnt) / cnt
EqualOnes(cnt) == [k \in 1..cnt |-> Reduce(1, cnt)]

\* matrix[a:b] for 0 <= a (rows a .. b-1 of the source are rows a+1 .. b here)
Rows(m, a, b) == SubSeq(m, a + 1, IF b < Len(m) THEN b ELSE Len(m))

\* matrix[:, j]
Column(m, j) == [d \in 1..Len(m) |-> m[d][j]]

\* cum_returns[i] = np.prod(1 + recent_returns[:, i]) - 1
CumReturns(m, cnt) ==
    [j \in 1..cnt |-> RSub(ProdOnePlus(Column(m, j)), One)]

normalize_scores(returns) ==
    IF Len(returns) = 0 THEN returns
    ELSE LET min_val == RMin(returns)
             max_val == RMax(returns)
         IN  IF max_val = min_val
             THEN [k \in 1..Len(returns) |-> Reduce(1, Len(returns))]
             ELSE [k \in 1..Len(returns) |->
                      RDiv(RSub(returns[k], min_val), RSub(max_val, min_val))]

\* A plausible slip: the final division by the total is left out.
DivideByTotal_Skipped(w) == w

\* total = np.sum(weights); if total > 0: weights = weights / total
DivideByTotal(w) ==
    LET total == RSum(w)
    IN  IF RPos(total) THEN [k \in 1..Len(w) |-> RDiv(w[k], total)] ELSE w

\* The part the two momentum policies share after their scores are computed:
\* mask of positive scores, min-max over the masked scores, mask again,
\* divide by the total.
MaskNormalize(scores) ==
    LET cnt == Len(scores)
        mask == [k \in 1..cnt |-> RPos(scores[k])]
        filtered == [k \in 1..cnt |-> IF mask[k] THEN scores[k] ELSE Zero]
        normalized == normalize_scores(filtered)
        masked == [k \in 1..cnt |-> IF mask[k] THEN normalized[k] ELSE Zero]
    IN  IF \A k \in 1..cnt : ~mask[k] THEN Zeros(cnt) ELSE DivideByTotal(masked)

calculate_momentum_weights(m, lb, cnt) ==
    IF Len(m) < lb THEN EqualOnes(cnt)
    ELSE MaskNormalize(CumReturns(m, cnt))

\* (mean * 252) / (std * sqrt(252)), kept as its ratio to sqrt(252); every
\* later step (the test > 0, min-max, the division by the total) is the same
\* for scores that share one positive factor.
SharpeRatio(col) ==
    LET mean_return == NpMean(col)
        std_return == NpStd(col)
    IN  IF RPos(std_return)
        THEN RDiv(RMul(mean_return, <<252, 1>>), RMul(std_return, <<252, 1>>))
        ELSE Zero

calculate_sharpe_momentum_weights(m, lb, cnt) ==
    IF Len(m) < lb THEN EqualOnes(cnt)
    ELSE MaskNormalize([j \in 1..cnt |-> SharpeRatio(Column(m, j))])

\* A plausible slip: the reversal [::-1] is left out.
ArgsortDesc_Ascending(x) ==
    LET cnt == Len(x)
    IN  [p \in 1..cnt |->
           CHOOSE k \in 1..cnt :
              Cardinality({ j \in 1..cnt :
                 RLt(x[j], x[k]) \/ (x[j] = x[k] /\ j < k) }) = p - 1]

\* np.argsort(x)[::-1]: ascending order, ties by position, then reversed
ArgsortDesc(x) ==
    LET cnt == Len(x)
        asc == [p \in 1..cnt |->
                  CHOOSE k \in 1..cnt :
                     Cardinality({ j \in 1..cnt :
                        RLt(x[j], x[k]) \/ (x[j] = x[k] /\ j < k) }) = p - 1]
    IN  [p \in 1..cnt |-> asc[cnt + 1 - p]]

\* the loop filling top_indices
RECURSIVE TopIndices(_, _, _)
TopIndices(order, mask, picked) ==
    IF order = << >> THEN picked
    ELSE TopIndices(Tail(order), mask,
                    IF mask[Head(order)] /\ Len(picked) < NTop
                    THEN Append(picked, Head(order)) ELSE picked)

calculate_top_n_ranking_weights(m, lb, cnt) ==
    IF Len(m) < lb THEN EqualOnes(cnt)
    ELSE LET cum_returns == CumReturns(m, cnt)
             mask == [k \in 1..cnt |-> RPos(cum_returns[k])]
             top_indices == TopIndices(ArgsortDesc(cum_returns), mask, << >>)
             top == { top_indices[k] : k \in 1..Len(top_indices) }
         IN  IF \A k \in 1..cnt : ~mask[k] THEN Zeros(cnt)
             ELSE IF Len(top_indices) = 0 THEN Zeros(cnt)
             ELSE [k \in 1..cnt |->
                     IF k \in top THEN Reduce(1, Len(top_indices)) ELSE Zero]

calculate_equal_weights_exclude_losing(cd, lb) ==
    IF cd < lb THEN EqualOnes(n_assets)
    ELSE LET recent_returns == Rows(returns_matrix, cd - lb, cd)
             cum_returns == CumReturns(recent_returns, n_assets)
             profitable == { k \in 1..n_assets : RPos(cum_returns[k]) }
             n_profitable == Cardinality(profitable)
         IN  IF n_profitable = 0 THEN Zeros(n_assets)
             ELSE [k \in 1..n_assets |->
                     IF k \in profitable THEN Reduce(1, n_profitable) ELSE Zero]

\* A plausible slip: the weights follow the volatility, not its inverse.
calculate_risk_parity_weights_ByVol(cd, lb) ==
    IF cd < lb THEN EqualOnes(n_assets)
    ELSE LET recent_returns == Rows(returns_matrix, cd - lb, cd)
             cum_returns == CumReturns(recent_returns, n_assets)
             volatilities ==
                [k \in 1..n_assets |-> NpStd(Column(recent_returns, k))]
             profitable == { k \in 1..n_assets : RPos(cum_returns[k]) }
             vol == [k \in 1..n_assets |->
                       IF k \in profitable /\ RPos(volatilities[k])
                       THEN volatilities[k] ELSE Zero]
             total_vol == RSum(vol)
         IN  IF profitable = {} THEN Zeros(n_assets)
             ELSE IF RPos(total_vol)
                  THEN [k \in 1..n_assets |-> RDiv(vol[k], total_vol)]
                  ELSE Zeros(n_assets)

calculate_risk_parity_weights(cd, lb) ==
    IF cd < lb THEN EqualOnes(n_assets)
    ELSE LET recent_returns == Rows(returns_matrix, cd - lb, cd)
             cum_returns == CumReturns(recent_returns, n_assets)
             volatilities ==
                [k \in 1..n_assets |-> NpStd(Column(recent_returns, k))]
             profitable == { k \in 1..n_assets : RPos(cum_returns[k]) }
             inv_vol == [k \in 1..n_assets |->
                           IF k \in profitable /\ RPos(volatilities[k])
                           THEN RDiv(One, volatilities[k]) ELSE Zero]
             total_inv_vol == RSum(inv_vol)
         IN  IF profitable = {} THEN Zeros(n_assets)
             ELSE IF RPos(total_inv_vol)
                  THEN [k \in 1..n_assets |-> RDiv(inv_vol[k], total_inv_vol)]
                  ELSE Zeros(n_assets)

\* A plausible slip: the slice is one row late and takes in the epoch's row.
RelevantReturns_WithEpochRow(cd, lb) ==
    Rows(returns_matrix, IF cd - lb + 1 > 0 THEN cd - lb + 1 ELSE 0, cd + 1)

\* self.returns_matrix[max(0, current_day - lookback):current_day]
RelevantReturns(cd, lb) ==
    Rows(returns_matrix, IF cd - lb > 0 THEN cd - lb ELSE 0, cd)

CalculateWeightsFor(cd, lb, mth) ==
    CASE mth = "momentum" ->
            calculate_momentum_weights(RelevantReturns(cd, lb), lb, n_assets)
      [] mth = "sharpe_momentum" ->
            calculate_sharpe_momentum_weights(RelevantReturns(cd, lb), lb, n_assets)
      [] mth = "top_n_ranking" ->
            calculate_top_n_ranking_weights(RelevantReturns(cd, lb), lb, n_assets)
      [] mth = "equal" -> calculate_equal_weights_exclude_losing(cd, lb)
      [] mth = "risk_parity" -> calculate_risk_parity_weights(cd, lb)
      [] OTHER -> EqualOnes(n_assets)

(***************************************************************************)
(* SpecAlloc: one call of _calculate_weights on any returns matrix          *)
(***************************************************************************)
MaxAssets == 3

\* Daily returns -10%, 0, +10%.
ReturnValues == { <<-1, 10>>, <<0, 1>>, <<1, 10>> }

\* Days of history in returns_matrix.  Windows hold at most two rows, so
\* that every standard deviation is a ratio: std(a, b) = |a - b| / 2.
RowCounts == { 1, 2 }

Lookbacks == { 1, 2 }

Methods == { "momentum", "sharpe_momentum", "top_n_ranking", "equal",
             "risk_parity", "other" }

AllocInit ==
    /\ CoreIdle
    /\ NbIdle
    /\ FiltIdle
    /\ FriIdle
    /\ LinIdle
    /\ WinIdle
    /\ RebIdle
    /\ PoolIdle
    /\ SumIdle
    /\ CtorIdle
    /\ WfoIdle
    /\ GridIdle
    /\ \E cnt \in 1..MaxAssets, days \in RowCounts :
          /\ returns_matrix \in [1..days -> [1..cnt -> ReturnValues]]
          /\ current_day \in 0..days
    /\ lookback \in Lookbacks
    /\ method \in Methods
    /\ weights = << >>
    /\ apc = "start"

\* _calculate_weights(current_day, lookback, method)
CalculateWeights ==
    /\ apc = "start"
    /\ weights' = CalculateWeightsFor(current_day, lookback, method)
    /\ apc' = "done"
    /\ UNCHANGED <<returns_matrix, current_day, lookback, method>>
    /\ UNCHANGED <<coreVars, wfoVars, gridVars, ctorVars, sumVars, poolVars, rebVars, winVars, linVars, friVars, filtVars, nbVars>>

AllocNext == CalculateWeights

SpecAlloc == AllocInit /\ [][AllocNext]_vars

(***************************************************************************)
(* Claims about the allocation policies (checked under SpecAlloc)           *)
(***************************************************************************)
\* C6: every weight vector a policy returns, the bootstrap fallback included,
\* has one entry per strategy, all entries >= 0, and sums to 1 or to 0.
C6_WeightsNonNegativeSumOneOrZero ==
    apc = "done" =>
       /\ Len(weights) = n_assets
       /\ \A k \in 1..Len(weights) : weights[k][1] >= 0 /\ weights[k][2] > 0
       /\ RSum(weights) \in { Zero, One }

\* A momentum call past the bootstrap returned two different positive
\* weights and a zero weight.
C6_Witness ==
    /\ apc = "done"
    /\ method = "momentum"
    /\ Len(returns_matrix) >= lookback
    /\ current_day >= lookback
    /\ \E j, k, l \in 1..Len(weights) :
          /\ RPos(weights[j]) /\ RPos(weights[k])
          /\ weights[j] # weights[k]
          /\ weights[l] = Zero

(***************************************************************************)
(* SpecCtor: Backtest.__init__ on any table                                 *)
(***************************************************************************)
MaxTableRows == 4

required_columns ==
    { "bid", "ask", "midprice", "upper_band", "lower_band", "middle_band" }

\* Columns a table may carry: the six required ones and one the engine does
\* not use.
TableColumns == required_columns \cup { "volume" }

\* Missing values of one row: none, a band, the unused column.
NanChoices == { {}, { "upper_band" }, { "volume" } }

\* data.dropna(): a row goes when any column of the table is missing in it.
Dropna(cols, rws) == SelectSeq(rws, LAMBDA r : r \cap cols = {})

\* Backtest.__init__: what it raises and the length of the data it stored.
BacktestCtor(cols, rws) ==
    LET missing_columns == required_columns \ cols
        data == Dropna(cols, rws)
    IN  IF missing_columns # {}
        THEN [raised |-> TRUE, data_len |-> -1]
        ELSE [raised |-> Len(data) < MinRows, data_len |-> Len(data)]

CtorInit ==
    /\ CoreIdle
    /\ NbIdle
    /\ FiltIdle
    /\ FriIdle
    /\ LinIdle
    /\ WinIdle
    /\ RebIdle
    /\ PoolIdle
    /\ SumIdle
    /\ WfoIdle
    /\ GridIdle
    /\ AllocIdle
    /\ columns \in SUBSET TableColumns
    /\ \E len \in 0..MaxTableRows : nan_cols \in [1..len -> NanChoices]
    /\ data_len = -1
    /\ cpc = "start"

\* Backtest(data)
Construct ==
    /\ cpc = "start"
    /\ LET r == BacktestCtor(columns, nan_cols) IN
          /\ data_len' = r.data_len
          /\ cpc' = IF r.raised THEN "raised" ELSE "constructed"
    /\ UNCHANGED <<columns, nan_cols>>
    /\ UNCHANGED <<coreVars, wfoVars, gridVars, allocVars, sumVars, poolVars, rebVars, winVars, linVars, friVars, filtVars, nbVars>>

CtorNext == Construct

SpecCtor == CtorInit /\ [][CtorNext]_vars

(***************************************************************************)
(* Claims about Backtest.__init__ (checked under SpecCtor)                  *)
(***************************************************************************)
\* Rows complete in the six required fields.
UsableRows ==
    Cardinality({ k \in 1..Len(nan_cols) : nan_cols[k] \cap required_columns = {} })

\* C11: the constructor raises exactly when a required column is absent or
\* fewer than 3 rows are complete in the required fields; a table with at
\* least 3 such rows is accepted.  (Stated as claimed; dropna() also removes
\* the rows that miss a value in a column the engine does not use.)
C11_CtorValidation ==
    cpc \in { "constructed", "raised" } =>
       (cpc = "raised" <=>
           (~(required_columns \subseteq columns) \/ UsableRows < MinRows))

(***************************************************************************)
(* SpecSummary: the end of Backtest.run (metrics of the returned trades)    *)
(* and print_performance_summary                                            *)
(***************************************************************************)
MaxTrades == 3

\* PnL of one trade, in pips.
PnlChoices == { -2 * PipFactor, -PipFactor, 0, PipFactor, 2 * PipFactor }

\* The keys print_performance_summary reads.
PrintedKeys ==
    { "total_trades", "total_pnl", "average_trade", "win_rate",
      "winning_trades", "losing_trades", "best_trade", "worst_trade",
      "max_drawdown" }

\* State of run() when backtest_core has returned self.results.
SummaryInit ==
    /\ CoreIdle
    /\ NbIdle
    /\ FiltIdle
    /\ FriIdle
    /\ LinIdle
    /\ WinIdle
    /\ RebIdle
    /\ PoolIdle
    /\ CtorIdle
    /\ WfoIdle
    /\ GridIdle
    /\ AllocIdle
    /\ \E len \in 0..MaxTrades : bt_results \in [1..len -> PnlChoices]
    /\ performance_metrics = << >>
    /\ spc = "ran"

\* _calculate_performance_metrics()
CalculateMetrics ==
    /\ spc = "ran"
    /\ performance_metrics' = PerformanceMetrics(bt_results)
    /\ spc' = "calculated"
    /\ UNCHANGED bt_results
    /\ UNCHANGED <<coreVars, wfoVars, gridVars, allocVars, ctorVars, poolVars, rebVars, winVars, linVars, friVars, filtVars, nbVars>>

\* print_performance_summary(): a key the dictionary lacks is a KeyError.
PrintSummary ==
    /\ spc = "calculated"
    /\ spc' = IF PrintedKeys \subseteq DOMAIN performance_metrics
              THEN "printed" ELSE "raised"
    /\ UNCHANGED <<bt_results, performance_metrics>>
    /\ UNCHANGED <<coreVars, wfoVars, gridVars, allocVars, ctorVars, poolVars, rebVars, winVars, linVars, friVars, filtVars, nbVars>>

SummaryNext == CalculateMetrics \/ PrintSummary

SpecSummary == SummaryInit /\ [][SummaryNext]_vars

(***************************************************************************)
(* Claims about the performance summary (checked under SpecSummary)         *)
(***************************************************************************)
\* Cumulative PnL after the first t trades.
CumulativePnlAt(t) == SumSeq(SubSeq(bt_results, 1, t))

\* C13: for a non-empty trade list max_drawdown is >= 0, and it is 0 exactly
\* when the cumulative PnL never falls from one trade to the next.
C13_MaxDrawdown ==
    (spc \in { "calculated", "printed", "raised" } /\ bt_results # << >>) =>
       /\ performance_metrics.max_drawdown >= 0
       /\ performance_metrics.max_drawdown = 0 <=>
             \A t \in 2..Len(bt_results) :
                CumulativePnlAt(t - 1) <= CumulativePnlAt(t)

\* Metrics of a list that starts with a loss, never falls afterwards and so
\* has no drawdown although its cumulative PnL is negative.
C13_Witness ==
    /\ spc = "calculated"
    /\ Len(bt_results) >= 2
    /\ bt_results[1] < 0
    /\ performance_metrics.max_drawdown = 0

\* C14: for an empty trade list every field of the summary is present with
\* value 0 and printing the summary does not fail.  (Stated as claimed; the
\* dictionary stored for an empty list has no best_trade and no worst_trade.)
C14_EmptySummaryAllZero ==
    (spc \in { "calculated", "printed", "raised" } /\ bt_results = << >>) =>
       /\ PrintedKeys \subseteq DOMAIN performance_metrics
       /\ \A key \in PrintedKeys \cap DOMAIN performance_metrics :
             performance_metrics[key] \in { 0, Rat(0, 1) }
       /\ spc # "raised"

(***************************************************************************)
(* SpecPool: optimize_parameters with its ProcessPoolExecutor, one step per *)
(* worker start, worker end and result collected by the caller              *)
(***************************************************************************)
MaxWorkers == 2

\* Grids swept by the pool: those of the harnesses and one of three windows.
PoolGrids ==
    Grids \cup
      { [window_start |-> 20, window_stop |-> 60, window_step |-> 20,
         std_start |-> 20, std_stop |-> 20, std_step |-> 5] }    \* {20, 40, 60} x {2.0}

\* Columns of minute_data, and those bollinger_bands adds to its copy.
PriceColumns == { "bid", "ask", "midprice" }

BandColumns == { "upper_band", "lower_band", "middle_band" }

PendingFuture(cols) == [state |-> "pending", cols |-> cols, result |-> << >>]

\* A plausible slip: results are taken as they complete (the latest finished
\* candidate first) instead of in submission order.
NextToCollect_AsCompleted(done) ==
    LET ready == { k \in 1..Len(futures) :
                     /\ futures[k].state \in {"done", "raised"}
                     /\ \A j \in 1..Len(done) : done[j] # k }
    IN  IF ready = {} THEN Len(done) + 1
        ELSE CHOOSE k \in ready : \A j \in ready : j <= k

\* executor.map yields the results in the order of parameters_to_test.
NextToCollect(done) == Len(done) + 1

PoolInit ==
    /\ CoreIdle
    /\ NbIdle
    /\ FiltIdle
    /\ FriIdle
    /\ LinIdle
    /\ WinIdle
    /\ RebIdle
    /\ CtorIdle
    /\ SumIdle
    /\ AllocIdle
    /\ lookback_days = 0 /\ optimization_interval_days = 0
    /\ start_idx = 0 /\ period_count = 0 /\ wfo_results = << >>
    /\ wpc = "idle" /\ attempt_log = << >> /\ last_opt = << >>
    /\ data_length \in GridDataLengths
    /\ grid \in PoolGrids
    /\ harness = "pool"
    /\ cand_outs \in [1..Len(ParametersToTest(grid)) -> CandOutcomes]
    /\ results_df = << >>
    /\ gpc = "idle"
    /\ max_workers \in 1..MaxWorkers
    /\ minute_cols = PriceColumns
    /\ futures = << >>
    /\ collected = << >>
    /\ pool_table = << >>
    /\ ppc = "start"

\* executor.map(process_params_worker, parameters_to_test): every candidate
\* is submitted with its own pickled copy of params, minute_data included.
SubmitAll ==
    /\ ppc = "start"
    /\ futures' = [k \in 1..Len(ParametersToTest(grid)) |-> PendingFuture(minute_cols)]
    /\ ppc' = "mapping"
    /\ UNCHANGED <<max_workers, minute_cols, collected, pool_table>>
    /\ UNCHANGED <<coreVars, wfoVars, gridVars, allocVars, ctorVars, sumVars, rebVars, winVars, linVars, friVars, filtVars, nbVars>>

\* A free worker process takes the oldest pending call.
WorkerStart ==
    /\ ppc = "mapping"
    /\ Cardinality({ k \in 1..Len(futures) : futures[k].state = "running" }) < max_workers
    /\ \E k \in 1..Len(futures) :
          /\ futures[k].state = "pending"
          /\ \A j \in 1..(k - 1) : futures[j].state # "pending"
          /\ futures' = [futures EXCEPT ![k].state = "running"]
    /\ UNCHANGED <<max_workers, minute_cols, collected, pool_table, ppc>>
    /\ UNCHANGED <<coreVars, wfoVars, gridVars, allocVars, ctorVars, sumVars, rebVars, winVars, linVars, friVars, filtVars, nbVars>>

\* process_params_worker(params) ends in some worker: bands are added to the
\* worker's table, and its return value or its exception is set on the
\* future of its own call.
WorkerEnd ==
    /\ ppc = "mapping"
    /\ \E k \in 1..Len(futures) :
          /\ futures[k].state = "running"
          /\ LET c == ParametersToTest(grid)[k] IN
                futures' = [futures EXCEPT ![k] =
                    IF PoolWorkerRaises(c.window, cand_outs[k])
                    THEN [state |-> "raised", cols |-> @.cols, result |-> << >>]
                    ELSE [state |-> "done", cols |-> @.cols \cup BandColumns,
                          result |-> <<PoolCandidateRow(c.window, c.num_std_dev,
                                                        data_length, cand_outs[k])>>]]
    /\ UNCHANGED <<max_workers, minute_cols, collected, pool_table, ppc>>
    /\ UNCHANGED <<coreVars, wfoVars, gridVars, allocVars, ctorVars, sumVars, rebVars, winVars, linVars, friVars, filtVars, nbVars>>

\* `for result in executor.map(...)`: the caller takes the next result and
\* appends it, or the worker's exception is raised in the caller.
Collect ==
    /\ ppc = "mapping"
    /\ Len(collected) < Len(futures)
    /\ LET k == NextToCollect(collected) IN
          /\ futures[k].state \in {"done", "raised"}
          /\ IF futures[k].state = "raised"
             THEN ppc' = "raised" /\ UNCHANGED collected
             ELSE ppc' = ppc /\ collected' = Append(collected, k)
    /\ UNCHANGED <<max_workers, minute_cols, futures, pool_table>>
    /\ UNCHANGED <<coreVars, wfoVars, gridVars, allocVars, ctorVars, sumVars, rebVars, winVars, linVars, friVars, filtVars, nbVars>>

\* pd.DataFrame(results_summary).sort_values('total_pnl', ascending=False)
SortAndReturn ==
    /\ ppc = "mapping"
    /\ Len(collected) = Len(futures)
    /\ LET results_summary ==
             [j \in 1..Len(collected) |-> futures[collected[j]].result[1]]
       IN  IF results_summary = << >>
           THEN ppc' = "raised" /\ UNCHANGED pool_table
           ELSE ppc' = "returned" /\ pool_table' = SortByPnlDesc(results_summary)
    /\ UNCHANGED <<max_workers, minute_cols, futures, collected>>
    /\ UNCHANGED <<coreVars, wfoVars, gridVars, allocVars, ctorVars, sumVars, rebVars, winVars, linVars, friVars, filtVars, nbVars>>

PoolNext == SubmitAll \/ WorkerStart \/ WorkerEnd \/ Collect \/ SortAndReturn

SpecPool == PoolInit /\ [][PoolNext]_vars

(***************************************************************************)
(* Claims about the worker pool (checked under SpecPool)                    *)
(***************************************************************************)
\* C16: whatever the interleaving and the completion order of the workers,
\* no step changes the caller's price table, a worker's step changes only
\* the future of its own candidate, and the sweep ends as the sequential
\* evaluation of the same input does: same rows in the same order, or the
\* same failure.
C16_OrderInsensitive ==
    [][ /\ minute_cols' = minute_cols
        /\ \A k \in 1..Len(futures) :
              futures'[k] # futures[k] =>
                 /\ \A j \in 1..Len(futures) : j # k => futures'[j] = futures[j]
                 /\ collected' = collected
                 /\ pool_table' = pool_table
                 /\ futures'[k].result # << >> =>
                       /\ futures'[k].result[1].window
                             = ParametersToTest(grid)[k].window
                       /\ futures'[k].result[1].num_std_dev
                             = ParametersToTest(grid)[k].num_std_dev
        /\ ppc' = "returned" =>
              /\ ~OptimizeParametersPool(data_length, grid, cand_outs).raised
              /\ pool_table'
                    = OptimizeParametersPool(data_length, grid, cand_outs).table
        /\ ppc' = "raised" =>
              OptimizeParametersPool(data_length, grid, cand_outs).raised
      ]_vars

\* A later candidate has finished while an earlier one is still running and
\* nothing has been collected yet.
C16_Witness ==
    /\ ppc = "mapping"
    /\ collected = << >>
    /\ \E j, k \in 1..Len(futures) :
          /\ j < k
          /\ futures[j].state = "running"
          /\ futures[k].state = "done"

(***************************************************************************)
(* DynamicPortfolioRebalancer.backtest_strategy: the Sunday schedule, the   *)
(* fallback without any epoch and _calculate_portfolio_performance.         *)
(* Row numbers keep the source's numbering from 0: row k of the source is   *)
(* returns_matrix[k + 1] and dates[k + 1] here.                             *)
(***************************************************************************)
\* n_days = len(self.returns_matrix)
n_days == Len(returns_matrix)

\* self.dates[k].weekday() == 6
IsSunday(k) == dates[k + 1] = 6

\* if n_days < lookback_days: lookback_days = max(5, n_days // 10)
ReducedLookback(lb, nd) ==
    IF nd < lb THEN (IF nd \div 10 > 5 THEN nd \div 10 ELSE 5) ELSE lb

\* start_idx = lookback_days; while start_idx < n_days: stop at a Sunday,
\* else start_idx += 1
RECURSIVE FirstSundayFrom(_)
FirstSundayFrom(k) ==
    IF k < n_days /\ ~IsSunday(k) THEN FirstSundayFrom(k + 1) ELSE k

\* A plausible slip: the inner search looks one row too far.
SearchRows_OneMore(k) ==
    k .. ((IF k + 8 < n_days THEN k + 8 ELSE n_days) - 1)

\* range(i, min(i + 7, n_days))
SearchRows(k) ==
    k .. ((IF k + 7 < n_days THEN k + 7 ELSE n_days) - 1)

\* The row the cycle that landed on row k rebalances at; -1 when the
\* for-else reaches `continue`.
CycleRow(k) ==
    IF IsSunday(k) THEN k
    ELSE LET found == { j \in SearchRows(k) : IsSunday(j) }
         IN  IF found = {} THEN -1 ELSE MinOf(found)

\* np.dot(current_weights, returns_matrix[day])
Dot(w, row) == RSum([k \in 1..Len(w) |-> RMul(w[k], row[k])])

\* day in rebalance_dates_idx
InList(x, s) == \E k \in 1..Len(s) : s[k] = x

\* A plausible slip: the daily return is added instead of compounded.
Compound_Additive(value, daily_return) == RAdd(value, daily_return)

\* portfolio_value[day + 1] = portfolio_value[day] * (1 + daily_return)
Compound(value, daily_return) == RMul(value, RAdd(One, daily_return))

\* for day in range(n_days): ... of _calculate_portfolio_performance
RECURSIVE PerformanceFrom(_, _, _, _, _, _, _, _)
PerformanceFrom(rm, wh, idx, day, current_weights, rebal_idx, rets, vals) ==
    IF day >= Len(rm) THEN <<rets, vals>>
    ELSE LET reb == InList(day, idx) /\ rebal_idx < Len(wh)
             w == IF reb THEN wh[rebal_idx + 1] ELSE current_weights
             daily_return == Dot(w, rm[day + 1])
         IN  PerformanceFrom(rm, wh, idx, day + 1, w,
                             IF reb THEN rebal_idx + 1 ELSE rebal_idx,
                             Append(rets, daily_return),
                             Append(vals, Compound(vals[Len(vals)], daily_return)))

\* _calculate_portfolio_performance: <<portfolio_returns, portfolio_value>>
calculate_portfolio_performance(rm, wh, idx) ==
    PerformanceFrom(rm, wh, idx, 0,
                    IF Len(wh) > 0 THEN wh[1] ELSE EqualOnes(Len(rm[1])),
                    0, << >>, <<One>>)

(***************************************************************************)
(* SpecRebalance: one call of backtest_strategy                             *)
(***************************************************************************)
MaxRebDays == 16

\* Lengths of the returns table: shorter than, equal to and longer than the
\* lookbacks below; the longest holds three weekly cycles.
RebDayCounts == { 2, 5, MaxRebDays }

\* weekday() of a row's date: a Monday or a Sunday.  The dates of a table
\* with gaps can carry any sequence of weekdays; the tables here have up to
\* three Sundays, on any rows.
Weekdays == { 0, 6 }

SundayRows(days) ==
    { {} } \cup { {a, b, c} : a, b, c \in 0..(days - 1) }

DateTables(days) ==
    { [k \in 1..days |-> IF (k - 1) \in S THEN 6 ELSE 0] : S \in SundayRows(days) }

RebLookbacks == { 1, 2, 6 }

\* The policies whose scores need no standard deviation (a standard
\* deviation over a window of more than two rows is not a ratio).
RebMethods == { "momentum", "equal" }

\* One day's returns of two strategies: +100% and 0, or -100% and +100%.
RebRows == { << <<1, 1>>, <<0, 1>> >>, << <<-1, 1>>, <<1, 1>> >> }

\* Tables that alternate the two rows, starting with either.
RebReturnTables(days) ==
    { [d \in 1..days |-> IF d % 2 = 1 THEN a ELSE CHOOSE b \in RebRows : b # a] :
         a \in RebRows }

RebInit ==
    /\ CoreIdle
    /\ NbIdle
    /\ FiltIdle
    /\ FriIdle
    /\ LinIdle
    /\ WinIdle
    /\ PoolIdle
    /\ SumIdle
    /\ CtorIdle
    /\ WfoIdle
    /\ GridIdle
    /\ \E days \in RebDayCounts :
          /\ returns_matrix \in RebReturnTables(days)
          /\ dates \in DateTables(days)
    /\ method \in RebMethods
    /\ current_day = 0 /\ lookback = 0 /\ weights = << >> /\ apc = "idle"
    /\ bs_lookback_days \in RebLookbacks
    /\ bs_start_idx = 0 /\ bs_i = 0
    /\ rebalance_dates_idx = << >> /\ weights_history = << >>
    /\ portfolio_returns = << >> /\ portfolio_values = << >>
    /\ rpc = "start"

\* Lines 102-119: the lookback is reduced when the table is shorter, then
\* the first Sunday at or after it is searched.
FindFirstSunday ==
    /\ rpc = "start"
    /\ bs_lookback_days' = ReducedLookback(bs_lookback_days, n_days)
    /\ bs_start_idx' = FirstSundayFrom(bs_lookback_days')
    /\ bs_i' = bs_start_idx'
    /\ rpc' = "loop"
    /\ UNCHANGED <<dates, rebalance_dates_idx, weights_history,
                   portfolio_returns, portfolio_values>>
    /\ UNCHANGED <<coreVars, wfoVars, gridVars, allocVars, ctorVars, sumVars, poolVars, winVars, linVars, friVars, filtVars, nbVars>>

\* One pass of `for i in range(start_idx, n_days, 7)`.
RebalanceCycle ==
    /\ rpc = "loop"
    /\ bs_i < n_days
    /\ LET row == CycleRow(bs_i)
       IN  IF row = -1
           THEN UNCHANGED <<rebalance_dates_idx, weights_history>>
           ELSE /\ rebalance_dates_idx' = Append(rebalance_dates_idx, row)
                /\ weights_history' =
                      Append(weights_history,
                             CalculateWeightsFor(row, bs_lookback_days, method))
    /\ bs_i' = bs_i + 7
    /\ UNCHANGED <<dates, bs_lookback_days, bs_start_idx,
                   portfolio_returns, portfolio_values, rpc>>
    /\ UNCHANGED <<coreVars, wfoVars, gridVars, allocVars, ctorVars, sumVars, poolVars, winVars, linVars, friVars, filtVars, nbVars>>

\* Lines 141-175: the fallback when nothing was recorded (where
\* self.dates[lookback_days] raises IndexError for lookback_days >= n_days),
\* then the performance of the portfolio.
FinishBacktest ==
    /\ rpc = "loop"
    /\ bs_i >= n_days
    /\ IF weights_history = << >> /\ bs_lookback_days >= n_days
       THEN /\ rpc' = "raised"
            /\ UNCHANGED <<rebalance_dates_idx, weights_history,
                           portfolio_returns, portfolio_values>>
       ELSE LET wh == IF weights_history = << >>
                      THEN <<EqualOnes(n_assets)>> ELSE weights_history
                idx == IF weights_history = << >> /\ rebalance_dates_idx = << >>
                       THEN <<bs_lookback_days>> ELSE rebalance_dates_idx
                perf == calculate_portfolio_performance(returns_matrix, wh, idx)
            IN  /\ weights_history' = wh
                /\ rebalance_dates_idx' = idx
                /\ portfolio_returns' = perf[1]
                /\ portfolio_values' = perf[2]
                /\ rpc' = "returned"
    /\ UNCHANGED <<dates, bs_lookback_days, bs_start_idx, bs_i>>
    /\ UNCHANGED <<coreVars, wfoVars, gridVars, allocVars, ctorVars, sumVars, poolVars, winVars, linVars, friVars, filtVars, nbVars>>

RebNext == FindFirstSunday \/ RebalanceCycle \/ FinishBacktest

SpecRebalance == RebInit /\ [][RebNext]_vars

(***************************************************************************)
(* Claims about the rebalance schedule (checked under SpecRebalance)        *)
(***************************************************************************)
\* C17: the first rebalance epoch is the first row at or after lookback whose
\* date is a Sunday; when none of the first 7 candidate rows starting at
\* lookback is a Sunday, the call rebalances nowhere and applies equal
\* weights to every day of the series.
C17_FirstEpoch ==
    rpc \in {"returned", "raised"} =>
       IF \E k \in bs_lookback_days .. (bs_lookback_days + 6) :
             k < n_days /\ IsSunday(k)
       THEN /\ rpc = "returned"
            /\ IsSunday(rebalance_dates_idx[1])
            /\ rebalance_dates_idx[1] >= bs_lookback_days
            /\ \A k \in bs_lookback_days .. (rebalance_dates_idx[1] - 1) :
                  ~IsSunday(k)
       ELSE /\ rpc = "returned"
            /\ weights_history = <<EqualOnes(n_assets)>>
            /\ \A t \in 1..n_days :
                  portfolio_returns[t] = Dot(EqualOnes(n_assets), returns_matrix[t])

\* C18: every cycle of the scheduler lands 7 rows after the previous one; it
\* rebalances at the landed row when that is a Sunday, else at the nearest
\* Sunday among the next 6 rows, and records nothing when there is none.
\* After every cycle each recorded epoch is a Sunday, the epoch rows are
\* strictly increasing and there is one weight vector per epoch.
C18_WeeklyCycles ==
    [][ (rpc = "loop" /\ bs_i < n_days) =>
           LET landed == bs_i
               sundays == { j \in landed .. (landed + 6) :
                               j < n_days /\ IsSunday(j) }
           IN  /\ bs_i' = landed + 7
               /\ IF sundays = {}
                  THEN /\ rebalance_dates_idx' = rebalance_dates_idx
                       /\ weights_history' = weights_history
                  ELSE /\ rebalance_dates_idx'
                             = Append(rebalance_dates_idx, MinOf(sundays))
                       /\ Len(weights_history') = Len(weights_history) + 1
               /\ \A k \in 1..Len(rebalance_dates_idx') :
                     IsSunday(rebalance_dates_idx'[k])
               /\ \A k \in 1..(Len(rebalance_dates_idx') - 1) :
                     rebalance_dates_idx'[k] < rebalance_dates_idx'[k + 1]
               /\ Len(weights_history') = Len(rebalance_dates_idx')
      ]_vars

\* The second cycle landed on a row that is not a Sunday and rebalanced at
\* the Sunday 6 rows further on.
C18_Witness ==
    /\ rpc = "loop"
    /\ Len(rebalance_dates_idx) = 2
    /\ ~IsSunday(bs_start_idx + 7)
    /\ rebalance_dates_idx[2] = bs_start_idx + 13

\* C19: when no row at or after lookback is a Sunday (a table exactly as long
\* as lookback included), backtest_strategy returns without an error and
\* every day's portfolio return comes from one equal-weight vector.
C19_NoEpochFallback ==
    (/\ rpc \in {"returned", "raised"}
     /\ \A k \in bs_lookback_days .. (n_days - 1) : ~IsSunday(k)) =>
       /\ rpc = "returned"
       /\ weights_history = <<EqualOnes(n_assets)>>
       /\ \A t \in 1..n_days :
             portfolio_returns[t] = Dot(EqualOnes(n_assets), returns_matrix[t])

\* C20: in the result of backtest_strategy the portfolio value starts at 1
\* and each day's value is the previous value times (1 + that day's return);
\* from the first epoch on, a day's return is the dot product of the day's
\* returns with the weight vector of the latest epoch at or before that day.
C20_FrozenWeightsCompounding ==
    rpc = "returned" =>
       /\ Len(portfolio_returns) = n_days
       /\ Len(portfolio_values) = n_days + 1
       /\ portfolio_values[1] = One
       /\ \A t \in 0..(n_days - 1) :
             /\ portfolio_values[t + 2]
                   = RMul(portfolio_values[t + 1],
                          RAdd(One, portfolio_returns[t + 1]))
             /\ t >= rebalance_dates_idx[1] =>
                   LET latest ==
                          CHOOSE k \in 1..Len(rebalance_dates_idx) :
                             /\ rebalance_dates_idx[k] <= t
                             /\ \A j \in 1..Len(rebalance_dates_idx) :
                                   rebalance_dates_idx[j] <= t =>
                                      rebalance_dates_idx[j] <= rebalance_dates_idx[k]
                   IN  portfolio_returns[t + 1]
                          = Dot(weights_history[latest], returns_matrix[t + 1])

\* A returned backtest with three epochs whose weight vectors are not all
\* the same and whose value moved away from 1.
C20_Witness ==
    /\ rpc = "returned"
    /\ Len(weights_history) = 3
    /\ weights_history[1] # weights_history[2]
    /\ portfolio_values[n_days + 1] # One

(***************************************************************************)
(* SpecWindow: _calculate_weights at the same epoch on two returns tables   *)
(* that agree on the rows [current_day - lookback, current_day)             *)
(***************************************************************************)
\* Daily returns -10% and +10%.
WinReturnValues == { <<-1, 10>>, <<1, 10>> }

\* Three days of two strategies: a lookback of 1 or 2 leaves rows before the
\* window and rows at and after the epoch.
WinTables == [1..3 -> [1..2 -> WinReturnValues]]

\* The rows (numbered from 0) of returns_matrix[max(0, cd - lb):cd]
WindowRows(cd, lb) == (IF cd - lb > 0 THEN cd - lb ELSE 0) .. (cd - 1)

WinInit ==
    /\ CoreIdle
    /\ NbIdle
    /\ FiltIdle
    /\ FriIdle
    /\ LinIdle
    /\ RebIdle
    /\ PoolIdle
    /\ SumIdle
    /\ CtorIdle
    /\ WfoIdle
    /\ GridIdle
    /\ returns_matrix \in WinTables
    /\ current_day \in 0..3
    /\ lookback \in Lookbacks
    /\ method \in Methods
    /\ weights = << >>
    /\ apc = "idle"
    /\ first_matrix = << >>
    /\ first_weights = << >>
    /\ win_pc = "start"

\* _calculate_weights(current_day, lookback, method) of a rebalancer built
\* on the first table
FirstTableWeights ==
    /\ win_pc = "start"
    /\ first_weights' = CalculateWeightsFor(current_day, lookback, method)
    /\ win_pc' = "first"
    /\ UNCHANGED <<allocVars, first_matrix, linVars, friVars, filtVars, nbVars>>
    /\ UNCHANGED <<coreVars, wfoVars, gridVars, ctorVars, sumVars, poolVars, rebVars, linVars, friVars, filtVars, nbVars>>

\* A second rebalancer, built on any table with the same window rows.
OtherTable ==
    /\ win_pc = "first"
    /\ \E other \in WinTables :
          /\ \A k \in WindowRows(current_day, lookback) :
                other[k + 1] = returns_matrix[k + 1]
          /\ returns_matrix' = other
    /\ first_matrix' = returns_matrix
    /\ win_pc' = "other"
    /\ UNCHANGED <<current_day, lookback, method, weights, apc, first_weights>>
    /\ UNCHANGED <<coreVars, wfoVars, gridVars, ctorVars, sumVars, poolVars, rebVars, linVars, friVars, filtVars, nbVars>>

\* _calculate_weights(current_day, lookback, method) of the second rebalancer
SecondTableWeights ==
    /\ win_pc = "other"
    /\ weights' = CalculateWeightsFor(current_day, lookback, method)
    /\ win_pc' = "second"
    /\ UNCHANGED <<returns_matrix, current_day, lookback, method, apc,
                   first_matrix, first_weights>>
    /\ UNCHANGED <<coreVars, wfoVars, gridVars, ctorVars, sumVars, poolVars, rebVars, linVars, friVars, filtVars, nbVars>>

WinNext == FirstTableWeights \/ OtherTable \/ SecondTableWeights

SpecWindow == WinInit /\ [][WinNext]_vars

\* C21: two returns tables that agree on the rows [e - lookback, e) give the
\* same weight vector at epoch e under every policy, whatever their other
\* rows hold.
C21_WindowOnly ==
    win_pc = "second" => weights = first_weights

\* The two tables differ in a row before the window and in a row at or after
\* the epoch, and the policy did not fall back to equal weights.
C21_Witness ==
    /\ win_pc = "second"
    /\ current_day = 2 /\ lookback = 1
    /\ first_matrix[1] # returns_matrix[1]
    /\ first_matrix[3] # returns_matrix[3]
    /\ first_weights # EqualOnes(n_assets)

(***************************************************************************)
(* More claims about the allocation policies (checked under SpecAlloc)      *)
(***************************************************************************)
FivePolicies == { "momentum", "sharpe_momentum", "top_n_ranking", "equal",
                  "risk_parity" }

\* C22: with fewer than lookback rows before current_day, each of the five
\* policies returns the weight 1/N for every one of the N strategies,
\* whatever the returns are.
C22_BootstrapEqualWeights ==
    (apc = "done" /\ method \in FivePolicies /\ current_day < lookback) =>
       /\ Len(weights) = n_assets
       /\ \A k \in 1..n_assets : weights[k] = <<1, n_assets>>

\* Risk parity fell back to equal weights over three strategies, one row of
\* history short, although the only row it has is a loss for every strategy.
C22_Witness ==
    /\ apc = "done"
    /\ method = "risk_parity"
    /\ current_day = 1 /\ lookback = 2
    /\ n_assets = 3
    /\ \A k \in 1..3 : returns_matrix[1][k] = <<-1, 10>>
    /\ weights = <<<<1, 3>>, <<1, 3>>, <<1, 3>>>>

\* C23: past the bootstrap the momentum policy gives weight 0 to every
\* strategy whose cumulative lookback return is <= 0, min-max normalizes the
\* positive cumulative returns, with the minimum and the maximum taken over
\* the positive ones only, divides the result by its sum, and returns the
\* all-zero vector when no cumulative return is positive.
C23_MomentumMinMaxOverPositive ==
    (apc = "done" /\ method = "momentum" /\ current_day >= lookback) =>
       LET cum == CumReturns(RelevantReturns(current_day, lookback), n_assets)
           pos == { k \in 1..n_assets : RPos(cum[k]) }
       IN  IF pos = {} THEN weights = Zeros(n_assets)
           ELSE LET lo == cum[CHOOSE k \in pos : \A j \in pos : ~RLt(cum[j], cum[k])]
                    hi == cum[CHOOSE k \in pos : \A j \in pos : ~RLt(cum[k], cum[j])]
                    score == [k \in 1..n_assets |->
                                IF k \notin pos THEN Zero
                                ELSE IF hi = lo THEN One
                                ELSE RDiv(RSub(cum[k], lo), RSub(hi, lo))]
                    total == RSum(score)
                IN  weights = [k \in 1..n_assets |-> RDiv(score[k], total)]

(***************************************************************************)
(* SpecTopN: _calculate_weights with method 'top_n_ranking' on one row of   *)
(* up to six strategies, so that n_top = 5 can bind                         *)
(***************************************************************************)
MaxTopAssets == 6

\* Daily returns -10%, +10%, +20%.
TopReturnValues == { <<-1, 10>>, <<1, 10>>, <<1, 5>> }

TopNInit ==
    /\ CoreIdle
    /\ NbIdle
    /\ FiltIdle
    /\ FriIdle
    /\ LinIdle
    /\ RebIdle
    /\ WinIdle
    /\ PoolIdle
    /\ SumIdle
    /\ CtorIdle
    /\ WfoIdle
    /\ GridIdle
    /\ \E cnt \in 1..MaxTopAssets :
          returns_matrix \in [1..1 -> [1..cnt -> TopReturnValues]]
    /\ current_day = 1
    /\ lookback = 1
    /\ method = "top_n_ranking"
    /\ weights = << >>
    /\ apc = "start"

SpecTopN == TopNInit /\ [][AllocNext]_vars

\* C24: the top-N policy gives the weight 1/k to k = min(5, number of
\* strictly positive strategies) strategies, all of them strictly positive,
\* and 0 to the others (so the all-zero vector when none is positive); no
\* selected strategy has a lower cumulative return than a positive one that
\* was left out.
C24_TopNEqualWeights ==
    apc = "done" =>
       LET cum == CumReturns(RelevantReturns(current_day, lookback), n_assets)
           pos == { j \in 1..n_assets : RPos(cum[j]) }
           k == IF Cardinality(pos) < 5 THEN Cardinality(pos) ELSE 5
           selected == { j \in 1..n_assets : weights[j] # Zero }
       IN  /\ Len(weights) = n_assets
           /\ Cardinality(selected) = k
           /\ selected \subseteq pos
           /\ \A j \in selected : weights[j] = <<1, k>>
           /\ \A j \in selected : \A u \in pos \ selected : ~RLt(cum[j], cum[u])

\* Six positive strategies: the five selected ones hold 1/5 each, and the one
\* left out has a lower return than one of the selected.
C24_Witness ==
    /\ apc = "done"
    /\ n_assets = 6
    /\ \A j \in 1..6 : RPos(returns_matrix[1][j])
    /\ \E u \in 1..6 :
          /\ weights[u] = Zero
          /\ \A j \in (1..6) \ {u} : weights[j] = <<1, 5>>
          /\ \E j \in (1..6) \ {u} :
                RLt(returns_matrix[1][u], returns_matrix[1][j])

(***************************************************************************)
(* SpecRisk: _calculate_weights with method 'risk_parity' on two rows whose *)
(* columns have different volatilities                                      *)
(***************************************************************************)
\* Daily returns -10%, 0, +10%, +30%: a column of two of them has the
\* standard deviation 0, 0.05, 0.1, 0.15 or 0.2.
RiskReturnValues == { <<-1, 10>>, <<0, 1>>, <<1, 10>>, <<3, 10>> }

RiskInit ==
    /\ CoreIdle
    /\ NbIdle
    /\ FiltIdle
    /\ FriIdle
    /\ LinIdle
    /\ RebIdle
    /\ WinIdle
    /\ PoolIdle
    /\ SumIdle
    /\ CtorIdle
    /\ WfoIdle
    /\ GridIdle
    /\ \E cnt \in 1..MaxAssets :
          returns_matrix \in [1..2 -> [1..cnt -> RiskReturnValues]]
    /\ current_day = 2
    /\ lookback = 2
    /\ method = "risk_parity"
    /\ weights = << >>
    /\ apc = "start"

SpecRisk == RiskInit /\ [][AllocNext]_vars

\* C25: risk parity gives weight 0 to every strategy whose cumulative lookback
\* return is not positive or whose lookback volatility is zero; the others get
\* weights proportional to 1 / standard deviation that sum to 1; when no
\* strategy qualifies the vector is all zero.
C25_RiskParityInverseVol ==
    apc = "done" =>
       LET win == Rows(returns_matrix, current_day - lookback, current_day)
           cum == CumReturns(win, n_assets)
           vol == [k \in 1..n_assets |-> NpStd(Column(win, k))]
           qualifies == { k \in 1..n_assets : RPos(cum[k]) /\ RPos(vol[k]) }
       IN  /\ Len(weights) = n_assets
           /\ \A k \in (1..n_assets) \ qualifies : weights[k] = Zero
           /\ qualifies # {} => RSum(weights) = One
           /\ \A j \in qualifies : \A k \in qualifies :
                 RMul(weights[j], vol[j]) = RMul(weights[k], vol[k])

\* Two qualifying strategies of different volatility and a third one that is
\* positive but has no volatility.
C25_Witness ==
    /\ apc = "done"
    /\ n_assets = 3
    /\ returns_matrix[1] = <<<<0, 1>>, <<1, 10>>, <<1, 10>>>>
    /\ returns_matrix[2] = <<<<1, 10>>, <<3, 10>>, <<1, 10>>>>
    /\ weights = <<<<2, 3>>, <<1, 3>>, <<0, 1>>>>

(***************************************************************************)
(* Scenario A (checked under SpecCore)                                      *)
(***************************************************************************)
\* A 5-bar series, no bar in the Friday closing window, whose mid crosses
\* below the lower band at the second bar and above the middle band at the
\* fourth bar and not before.  The arrays number the bars from 0: the second
\* bar is index 1, the fourth is index 3.
ScenarioA ==
    /\ n = 5
    /\ \A k \in 0..4 : friday_close[k] = 0
    /\ LongEntrySignal(1)
    /\ ~ExitLongSignal(2)
    /\ ExitLongSignal(3)

\* C26 as claimed: on Scenario A backtest_core returns exactly one Trade, a
\* Long, with entryIndex = 3 and exitIndex = 5 and with
\* pnl = (bid at the exit bar - ask at the entry bar) * 10000.
C26_ScenarioA_AsClaimed ==
    (pc = "done" /\ ScenarioA) =>
       /\ Len(trades) = 1
       /\ DirOf(trades[1]) = 1
       /\ EntryOf(trades[1]) = 3
       /\ ExitOf(trades[1]) = 5
       /\ PnlOf(trades[1]) = (bid[5] - ask[3]) * PipFactor

\* C26 (amended): on Scenario A backtest_core returns exactly one Trade, a
\* Long, whose Entry_idx = 2 and Exit_idx = 4 are the third and the fifth bar
\* in the arrays' numbering from 0, with pnl = (bid[4] - ask[2]) * 10000.
C26_ScenarioA ==
    (pc = "done" /\ ScenarioA) =>
       /\ Len(trades) = 1
       /\ DirOf(trades[1]) = 1
       /\ EntryOf(trades[1]) = 2
       /\ ExitOf(trades[1]) = 4
       /\ PnlOf(trades[1]) = (bid[4] - ask[2]) * PipFactor

\* Scenario A has run to the end, with a losing long trade: the entry ask is
\* above the exit bid.
C26_Witness ==
    /\ pc = "done"
    /\ ScenarioA
    /\ Len(trades) = 1
    /\ ask[2] > bid[4]

(***************************************************************************)
(* SpecLosing: backtest_strategy under each of the five policies on short   *)
(* tables whose lookback windows can lose on every strategy (Scenario D)    *)
(***************************************************************************)
\* Daily returns -50% and +75%: a window of one of each loses 12.5% and has
\* a positive mean.
LosingReturnValues == { <<-1, 2>>, <<3, 4>> }

\* Four days of two strategies, weights from a 2-row window.
LosingInit ==
    /\ CoreIdle
    /\ NbIdle
    /\ FiltIdle
    /\ FriIdle
    /\ LinIdle
    /\ WinIdle
    /\ PoolIdle
    /\ SumIdle
    /\ CtorIdle
    /\ WfoIdle
    /\ GridIdle
    /\ returns_matrix \in [1..4 -> [1..2 -> LosingReturnValues]]
    /\ dates \in DateTables(4)
    /\ method \in FivePolicies
    /\ current_day = 0 /\ lookback = 0 /\ weights = << >> /\ apc = "idle"
    /\ bs_lookback_days = 2
    /\ bs_start_idx = 0 /\ bs_i = 0
    /\ rebalance_dates_idx = << >> /\ weights_history = << >>
    /\ portfolio_returns = << >> /\ portfolio_values = << >>
    /\ rpc = "start"

SpecLosing == LosingInit /\ [][RebNext]_vars

\* The lookback window of the k-th recorded epoch loses on every strategy.
AllLosingAt(k) ==
    LET e == rebalance_dates_idx[k]
        cum == CumReturns(Rows(returns_matrix, e - bs_lookback_days, e), n_assets)
    IN  \A j \in 1..n_assets : RLt(cum[j], Zero)

\* Some strategy has a positive mean return over the k-th epoch's window.
PositiveMeanAt(k) ==
    LET e == rebalance_dates_idx[k]
        win == Rows(returns_matrix, e - bs_lookback_days, e)
    IN  \E j \in 1..n_assets : RPos(NpMean(Column(win, j)))

\* The days on which the weights of the k-th recorded epoch are held.
HoldingDays(k) ==
    { t \in 0..(n_days - 1) :
         /\ rebalance_dates_idx[k] <= t
         /\ k < Len(rebalance_dates_idx) => t < rebalance_dates_idx[k + 1] }

\* C28 as claimed: at an epoch whose window loses on every strategy each of
\* the five policies yields the all-zero vector, and the portfolio value
\* stays where it is on every day that vector is held.
C28_AllLosing_AsClaimed ==
    rpc = "returned" =>
       \A k \in 1..Len(rebalance_dates_idx) :
          (IsSunday(rebalance_dates_idx[k]) /\ AllLosingAt(k)) =>
             /\ weights_history[k] = Zeros(n_assets)
             /\ \A t \in HoldingDays(k) :
                   portfolio_values[t + 2] = portfolio_values[t + 1]

\* C28 (amended): the same for momentum, top-N, equal-exclude-losing and risk
\* parity, and for Sharpe momentum when no strategy of the window has a
\* positive mean return.
C28_AllLosing ==
    rpc = "returned" =>
       \A k \in 1..Len(rebalance_dates_idx) :
          (/\ IsSunday(rebalance_dates_idx[k])
           /\ AllLosingAt(k)
           /\ method = "sharpe_momentum" => ~PositiveMeanAt(k)) =>
             /\ weights_history[k] = Zeros(n_assets)
             /\ \A t \in HoldingDays(k) :
                   portfolio_values[t + 2] = portfolio_values[t + 1]

\* Risk parity rebalanced at row 2 on an all-losing window and held the
\* all-zero vector over two days whose returns are not zero.
C28_Witness ==
    /\ rpc = "returned"
    /\ method = "risk_parity"
    /\ rebalance_dates_idx = <<2>>
    /\ IsSunday(2)
    /\ AllLosingAt(1)
    /\ weights_history = <<Zeros(2)>>
    /\ portfolio_values[5] = portfolio_values[3]

(***************************************************************************)
(* calculate_linearity_metrics (linearity_analysis.py).  The least-squares  *)
(* line over the abscissas 0 .. len - 1 is computed in exact arithmetic     *)
(* from the sums below.  A real that is a square root is held as            *)
(* [nan, sgn, sq]: the number sgn * sqrt(sq), or not-a-number.             *)
(***************************************************************************)
\* len(portfolio_values) < 10
MinSeries == 10

\* sum of the abscissas np.arange(len) and of their squares
SumX(len) == SumSeq([k \in 1..len |-> k - 1])

SumXX(len) == SumSeq([k \in 1..len |-> (k - 1) * (k - 1)])

SumXY(vals) == SumSeq([k \in 1..Len(vals) |-> (k - 1) * vals[k]])

SumYY(vals) == SumSeq([k \in 1..Len(vals) |-> vals[k] * vals[k]])

\* len * Sxx, len * Sxy and len * Syy of the centred sums
ScaledSxx(len) == len * SumXX(len) - SumX(len) * SumX(len)

ScaledSxy(vals) ==
    Len(vals) * SumXY(vals) - SumX(Len(vals)) * SumSeq(vals)

ScaledSyy(vals) == Len(vals) * SumYY(vals) - SumSeq(vals) * SumSeq(vals)

\* reg.coef_[0]
Slope(vals) == Reduce(ScaledSxy(vals), ScaledSxx(Len(vals)))

\* (values - y_pred)[k], times len * ScaledSxx
ScaledResidual(vals, k) ==
    LET len == Len(vals)
        d == ScaledSxx(len)
    IN  len * d * vals[k]
          - (SumSeq(vals) * d - ScaledSxy(vals) * SumX(len))
          - len * ScaledSxy(vals) * (k - 1)

SumSqResiduals(vals) ==
    SumSeq([k \in 1..Len(vals) |-> ScaledResidual(vals, k) * ScaledResidual(vals, k)])

\* r2_score(values, y_pred) = 1 - SS_res / SS_tot; 1.0 when both are 0 and
\* 0.0 when only SS_tot is
R2Score(vals) ==
    LET len == Len(vals)
        d == ScaledSxx(len)
    IN  IF ScaledSyy(vals) = 0
        THEN (IF SumSqResiduals(vals) = 0 THEN One ELSE Zero)
        ELSE RSub(One, Reduce(SumSqResiduals(vals), len * d * d * ScaledSyy(vals)))

\* stats.pearsonr(np.arange(len), values)[0]: not-a-number for a constant
\* series
PearsonR(vals) ==
    LET sxy == ScaledSxy(vals)
        den == ScaledSxx(Len(vals)) * ScaledSyy(vals)
    IN  IF den = 0 THEN [nan |-> TRUE, sgn |-> 0, sq |-> Zero]
        ELSE [nan |-> FALSE,
              sgn |-> IF sxy > 0 THEN 1 ELSE IF sxy < 0 THEN -1 ELSE 0,
              sq |-> Reduce(sxy * sxy, den)]

\* A plausible slip: the correlation is used without the clamp at 0.
MaxZero_NoClamp(c) == c

\* max(0, correlation): Python's max keeps its first argument unless the
\* second compares greater, so not-a-number gives 0
MaxZero(c) ==
    IF ~c.nan /\ c.sgn = 1 THEN c ELSE [nan |-> FALSE, sgn |-> 0, sq |-> Zero]

\* 0.0
RealZero == [nan |-> FALSE, sgn |-> 0, sq |-> Zero]

\* float('inf')
Infinite == [inf |-> TRUE, sum_sq |-> Zero, count |-> 0, mean |-> Zero]

\* The returned dictionary.  linearity_score = r_squared * max(0, correlation)
\* is held as its two factors; residual_std as the sum of squared residuals,
\* the count and the mean it is computed from.
LinearityMetrics(vals) ==
    IF Len(vals) < MinSeries
    THEN [r_squared |-> Zero,
          correlation |-> RealZero,
          linearity_score |-> [factor |-> Zero, times |-> RealZero],
          slope |-> Zero,
          residual_std |-> Infinite]
    ELSE [r_squared |-> R2Score(vals),
          correlation |-> PearsonR(vals),
          linearity_score |-> [factor |-> R2Score(vals),
                               times |-> MaxZero(PearsonR(vals))],
          slope |-> Slope(vals),
          residual_std |->
             IF SumSeq(vals) = 0 THEN Infinite
             ELSE [inf |-> FALSE,
                   sum_sq |-> Reduce(SumSqResiduals(vals),
                                     Len(vals) * ScaledSxx(Len(vals))
                                       * Len(vals) * ScaledSxx(Len(vals))),
                   count |-> Len(vals),
                   mean |-> Reduce(SumSeq(vals), Len(vals))]]

(***************************************************************************)
(* SpecLinearity: one call of calculate_linearity_metrics                   *)
(***************************************************************************)
MaxSeriesLen == 10

\* Lengths below, just below and from the threshold of 10 up.
SeriesLens == { 2 } \cup (9..MaxSeriesLen)

\* Portfolio values 1 and 2.
SeriesValues == { 1, 2 }

LinInit ==
    /\ CoreIdle
    /\ NbIdle
    /\ FiltIdle
    /\ FriIdle
    /\ WinIdle
    /\ RebIdle
    /\ PoolIdle
    /\ SumIdle
    /\ CtorIdle
    /\ WfoIdle
    /\ GridIdle
    /\ AllocIdle
    /\ \E len \in SeriesLens : lin_values \in [1..len -> SeriesValues]
    /\ lin_metrics = << >>
    /\ lpc = "start"

CalculateLinearity ==
    /\ lpc = "start"
    /\ lin_metrics' = LinearityMetrics(lin_values)
    /\ lpc' = "done"
    /\ UNCHANGED lin_values
    /\ UNCHANGED <<coreVars, wfoVars, gridVars, allocVars, ctorVars, sumVars, poolVars, rebVars, winVars, friVars, filtVars, nbVars>>

LinNext == CalculateLinearity

SpecLinearity == LinInit /\ [][LinNext]_vars

\* C29: for a series of at least 10 values r_squared lies in [0, 1] and
\* max(0, correlation) lies in [0, 1], so their product linearity_score lies
\* in [0, 1]; for a shorter series r_squared, correlation, linearity_score
\* and slope are 0 and residual_std is infinite.
C29_LinearityScoreRange ==
    lpc = "done" =>
       IF Len(lin_values) >= 10
       THEN LET score == lin_metrics.linearity_score
            IN  /\ ~RLt(score.factor, Zero) /\ ~RLt(One, score.factor)
                /\ ~score.times.nan
                /\ score.times.sgn \in {0, 1}
                /\ ~RLt(One, score.times.sq)
       ELSE /\ lin_metrics.r_squared = Zero
            /\ lin_metrics.correlation = [nan |-> FALSE, sgn |-> 0, sq |-> Zero]
            /\ lin_metrics.linearity_score.factor = Zero
            /\ lin_metrics.slope = Zero
            /\ lin_metrics.residual_std.inf

\* A series of 10 values that falls on the whole: its correlation is
\* negative, its r_squared is strictly between 0 and 1 and its score is 0.
C29_Witness ==
    /\ lpc = "done"
    /\ Len(lin_values) = 10
    /\ lin_metrics.correlation.sgn = -1
    /\ RPos(lin_metrics.r_squared) /\ RLt(lin_metrics.r_squared, One)
    /\ lin_metrics.linearity_score.times.sgn = 0

(***************************************************************************)
(* The walk-forward summary (checked under SpecWFO)                         *)
(***************************************************************************)
\* C30: the summary is computed from the recorded periods: total_pnl and
\* total_trades are the sums of the recorded periods' total_pnl and
\* total_trades, the combined trades are the periods' trades in period
\* order, total_periods is the number of recorded periods and
\* avg_pnl_per_period is total_pnl divided by that number.  (Stated as
\* claimed; total_periods is the loop counter, which also counts the periods
\* that were skipped or raised.)
C30_SummaryOfRecordedPeriods ==
    (wpc = "returned" /\ wfo_results.summary_stats # << >>) =>
       LET perfs == wfo_results.period_performances
           summary == wfo_results.summary_stats
           recorded == Len(perfs)
       IN  /\ wfo_results.combined_trades = Concat(wfo_results.all_trades)
           /\ \A k \in 1..(Len(wfo_results.combined_trades) - 1) :
                 wfo_results.combined_trades[k].period
                    <= wfo_results.combined_trades[k + 1].period
           /\ summary.total_pnl
                 = SumSeq([k \in 1..recorded |-> perfs[k].total_pnl])
           /\ summary.total_trades
                 = SumSeq([k \in 1..recorded |-> perfs[k].total_trades])
           /\ summary.total_periods = recorded
           /\ summary.avg_pnl_per_period = Rat(summary.total_pnl, recorded)

(***************************************************************************)
(* The entry and exit rules of backtest_core (checked under SpecCore)       *)
(***************************************************************************)
\* C31: on a scanned bar i with the position Flat and the bar not flagged,
\* a Long is opened iff mid[i-1] > lower[i-1] and mid[i] < lower[i], with
\* entry index i+1 and entry price ask[i+1]; otherwise a Short is opened iff
\* mid[i-1] < upper[i-1] and mid[i] > upper[i], with entry index i+1 and
\* entry price bid[i+1]; otherwise the position stays Flat.  No trade is
\* appended on such a bar.
C31_EntryRule ==
    [][ (pc = "scan" /\ position = 0 /\ friday_close[i] # 1) =>
          /\ trades' = trades
          /\ IF midprice[i-1] > lower_band[i-1] /\ midprice[i] < lower_band[i]
             THEN /\ position' = 1
                  /\ entry_idx' = i + 1
                  /\ entry_price' = ask[i + 1]
             ELSE IF midprice[i-1] < upper_band[i-1] /\ midprice[i] > upper_band[i]
             THEN /\ position' = -1
                  /\ entry_idx' = i + 1
                  /\ entry_price' = bid[i + 1]
             ELSE /\ position' = 0
                  /\ entry_idx' = -1
      ]_vars

\* A Short has just been opened on an unflagged bar that mid reached from
\* inside the bands: it is booked on the next bar at that bar's bid.
C31_Witness ==
    /\ pc \in {"scan", "end"}
    /\ position = -1
    /\ entry_idx = i
    /\ entry_price = bid[i]
    /\ friday_close[i - 1] = 0
    /\ midprice[i - 2] > lower_band[i - 2]
    /\ midprice[i - 2] < upper_band[i - 2]
    /\ midprice[i - 1] > upper_band[i - 1]

\* C32: on a scanned bar i on which no Friday forced close happens, an open
\* Long is closed iff mid[i-1] < middle[i-1] and mid[i] > middle[i], an open
\* Short iff mid[i-1] > middle[i-1] and mid[i] < middle[i]; the trade gets
\* exit index i+1, the position is Flat after bar i and no entry is made on
\* bar i.
C32_ExitRule ==
    [][ (pc = "scan" /\ position # 0 /\ friday_close[i] # 1) =>
          IF IF position = 1
             THEN midprice[i-1] < middle_band[i-1] /\ midprice[i] > middle_band[i]
             ELSE midprice[i-1] > middle_band[i-1] /\ midprice[i] < middle_band[i]
          THEN /\ Len(trades') = Len(trades) + 1
               /\ SubSeq(trades', 1, Len(trades)) = trades
               /\ ExitOf(trades'[Len(trades')]) = i + 1
               /\ EntryOf(trades'[Len(trades')]) = entry_idx
               /\ DirOf(trades'[Len(trades')]) = position
               /\ position' = 0
               /\ entry_idx' = -1
               /\ entries_made' = entries_made
          ELSE /\ trades' = trades
               /\ position' = position
               /\ entry_idx' = entry_idx
               /\ entry_price' = entry_price
      ]_vars

\* A Long has just been closed by the cross of the middle band on an
\* unflagged bar that also crossed the upper band upwards: the trade exits
\* on the next bar and the position is Flat, the Short entry was not taken.
C32_Witness ==
    /\ pc \in {"scan", "end"}
    /\ Len(trades) > 0
    /\ DirOf(LastTrade) = 1
    /\ ExitOf(LastTrade) = i
    /\ EntryOf(LastTrade) < i - 1
    /\ friday_close[i - 1] = 0
    /\ ExitLongSignal(i - 1)
    /\ ShortEntrySignal(i - 1)
    /\ position = 0

\* C33: whatever closed it, a Long trade's pnl is
\* (bid[exitIndex] - ask[entryIndex]) * 10000 and a Short trade's pnl is
\* (bid[entryIndex] - ask[exitIndex]) * 10000, and both indices are indices
\* of the bar arrays.
C33_AsymmetricExecution ==
    \A k \in 1..Len(trades) :
        /\ EntryOf(trades[k]) \in 0..(n - 1)
        /\ ExitOf(trades[k]) \in 0..(n - 1)
        /\ PnlOf(trades[k]) =
              IF DirOf(trades[k]) = 1
              THEN (bid[ExitOf(trades[k])] - ask[EntryOf(trades[k])]) * PipFactor
              ELSE (bid[EntryOf(trades[k])] - ask[ExitOf(trades[k])]) * PipFactor

\* A finished run with a Short closed by the Friday window and a Long closed
\* at the end of the data.
C33_Witness ==
    /\ pc = "done"
    /\ Len(trades) = 2
    /\ DirOf(trades[1]) = -1
    /\ friday_close[ExitOf(trades[1])] = 1
    /\ ExitOf(trades[1]) < n - 1
    /\ DirOf(trades[2]) = 1
    /\ ExitOf(trades[2]) = n - 1
    /\ position = 1

\* C34: every entry made during the scan produces exactly one Trade: while
\* the scan runs the trades are the entries but the open one, a position
\* still open after the last scanned bar is closed by one final Trade with
\* exit index n-1 at the final bar's bid (Long) or ask (Short), and the
\* number of Trades returned is the number of entries made.
C34_NoPositionLost ==
    /\ pc \in {"scan", "end"} =>
          entries_made = Len(trades) + (IF position # 0 THEN 1 ELSE 0)
    /\ pc = "done" =>
          /\ Len(trades) = entries_made
          /\ position # 0 =>
                /\ ExitOf(LastTrade) = n - 1
                /\ EntryOf(LastTrade) = entry_idx
                /\ DirOf(LastTrade) = position
                /\ PnlOf(LastTrade) =
                      IF position = 1
                      THEN (bid[n - 1] - entry_price) * PipFactor
                      ELSE (entry_price - ask[n - 1]) * PipFactor

\* A finished run of two entries whose second was booked on the last bar
\* and closed there by the end-of-data handling.
C34_Witness ==
    /\ pc = "done"
    /\ entries_made = 2
    /\ position # 0
    /\ entry_idx = n - 1
    /\ Len(trades) = 2

(***************************************************************************)
(* Termination and coverage of the walk-forward loop                        *)
(***************************************************************************)
\* The periods the loop condition admits: the k >= 0 with
\* lookback_minutes + (k + 1) * interval < data_length (none of them above
\* the number of days in the data, the interval being whole days).
AdmittedPeriods ==
    { k \in 0..(data_length \div MinutesPerDay) :
        lookback_minutes + (k + 1) * optimization_interval_minutes < data_length }

\* C35: the walk-forward loop terminates: every iteration, whether the
\* period is recorded, skipped for no candidates, skipped for fewer than 10
\* usable trade rows or failed with an exception, advances start by exactly
\* the interval, and the call returns after attempting exactly as many
\* periods as there are k >= 0 with
\* lookback_minutes + (k + 1) * interval < data_length.
C35_LoopTerminates ==
    /\ <>(wpc \in {"returned", "raised"})
    /\ [][ (wpc = "loop" /\ period_count' = period_count + 1) =>
             /\ start_idx' = start_idx + optimization_interval_minutes
             /\ wpc' = "loop" ]_vars
    /\ [](wpc = "returned" =>
             /\ period_count = Cardinality(AdmittedPeriods)
             /\ Len(attempt_log) = Cardinality(AdmittedPeriods))

\* A returned call whose two attempts both left the body early, one by a
\* skip and one by an exception.
C35_Witness ==
    /\ wpc = "returned"
    /\ Len(attempt_log) = 2
    /\ Cardinality(AdmittedPeriods) = 2
    /\ \E p, q \in 1..2 :
          /\ attempt_log[p].outcome = "error"
          /\ attempt_log[q].outcome \in {"skip_empty", "skip_rows"}

\* C36: the loop repeats until all data is processed: the trade windows of
\* the attempted periods are back-to-back, the first starts at
\* lookback_minutes and the last, truncated, ends at data_length, so that
\* every bar from lookback_minutes on is in one trade window.  (Stated as
\* claimed; the loop stops as soon as a full interval no longer fits before
\* the end, and the bars after the last full interval are never traded.)
C36_TradeWindowsCoverData ==
    wpc = "returned" =>
       /\ \A p \in 1..(Len(attempt_log) - 1) :
             attempt_log[p].trade.hi = attempt_log[p + 1].trade.lo
       /\ \A b \in { lookback_minutes, data_length - 1 } :
             b \in lookback_minutes..(data_length - 1) =>
                \E p \in 1..Len(attempt_log) :
                    attempt_log[p].trade.lo <= b /\ b < attempt_log[p].trade.hi

(***************************************************************************)
(* Backtest._prepare_friday_close_array                                     *)
(* A timestamp is <<date, minute of the day>>, dates are counted in days    *)
(* from a Monday; row k of fri_index is row k - 1 of the data.              *)
(***************************************************************************)
\* `x[-15:]`
FridayWindowRows == 15

\* index.weekday, 0 = Monday
Weekday(ts) == ts[1] % 7

\* index.normalize(): the timestamp's date
Normalize(ts) == ts[1]

\* fridays = self.data.index.weekday == 4
IsFridayRow(idx, k) == Weekday(idx[k]) = 4

\* The rows of friday_df that groupby('date') puts in the group of date d.
FridayGroup(idx, d) ==
    { k \in 1..Len(idx) : IsFridayRow(idx, k) /\ Normalize(idx[k]) = d }

\* self.data.index.isin(last_15_idx): row k is selected when its timestamp
\* is the timestamp of one of the picked rows.
Isin(idx, k, picked) == idx[k] \in { idx[j] : j \in picked }

\* lambda x: x[-15:] on every group: the last 15 rows of each Friday date.
Last15Rows(idx) ==
    { k \in 1..Len(idx) :
        /\ IsFridayRow(idx, k)
        /\ Cardinality({ j \in FridayGroup(idx, Normalize(idx[k])) : j > k })
              < FridayWindowRows }

\* The array _prepare_friday_close_array returns.
PrepareFridayCloseArray(idx, is_datetime) ==
    IF ~is_datetime THEN [k \in 1..Len(idx) |-> 0]
    ELSE IF ~(\E k \in 1..Len(idx) : IsFridayRow(idx, k))
    THEN [k \in 1..Len(idx) |-> 0]
    ELSE [k \in 1..Len(idx) |->
            IF Isin(idx, k, Last15Rows(idx)) THEN 1 ELSE 0]

(***************************************************************************)
(* SpecFriday: the flag array of an index of a Thursday, a Friday and the   *)
(* Friday after it                                                          *)
(***************************************************************************)
MaxFridayRows == 17

\* The minute of the k-th row of a day: every minute, or with growing gaps.
MinuteOfRow(k, gaps) == IF gaps THEN 4 * k * k ELSE k

\* f rows of one date; with dup > 0 row dup + 1 repeats the timestamp of
\* row dup.
DayRows(date, f, gaps, dup) ==
    [k \in 1..f |->
       <<date, MinuteOfRow(IF dup > 0 /\ k = dup + 1 THEN dup ELSE k, gaps)>>]

FridayIndexes ==
    { DayRows(3, th, FALSE, 0) \o DayRows(4, f1, gaps, dup)
                               \o DayRows(11, f2, FALSE, 0) :
        th \in 0..1, f1 \in 0..MaxFridayRows, f2 \in 0..2,
        gaps \in BOOLEAN, dup \in 0..(MaxFridayRows - 1) }

FridayInit ==
    /\ CoreIdle
    /\ NbIdle
    /\ FiltIdle
    /\ LinIdle
    /\ WinIdle
    /\ RebIdle
    /\ PoolIdle
    /\ SumIdle
    /\ CtorIdle
    /\ GridIdle
    /\ AllocIdle
    /\ WfoIdle
    /\ fri_index \in FridayIndexes
    /\ fri_is_datetime \in BOOLEAN
    /\ friday_flags = << >>
    /\ fpc = "start"

PrepareFridayClose ==
    /\ fpc = "start"
    /\ friday_flags' = PrepareFridayCloseArray(fri_index, fri_is_datetime)
    /\ fpc' = "done"
    /\ UNCHANGED <<fri_index, fri_is_datetime>>
    /\ UNCHANGED <<coreVars, wfoVars, gridVars, allocVars, ctorVars, sumVars, poolVars, rebVars, winVars, linVars, filtVars, nbVars>>

FridayNext == PrepareFridayClose

SpecFriday == FridayInit /\ [][FridayNext]_vars

\* C37: the flag array is row-count based: on every date that is a Friday
\* exactly the last min(15, number of rows of the date) rows of the date are
\* flagged 1 and every other row is flagged 0, whatever the clock times of
\* the rows; with an index that is not a datetime index or has no Friday
\* every flag is 0.  (Stated as claimed; the rows are marked by timestamp
\* value, so a row outside the last 15 that carries the timestamp of one of
\* them is flagged too.)
C37_FridayFlagsRowCount ==
    fpc = "done" =>
       /\ Len(friday_flags) = Len(fri_index)
       /\ \A k \in 1..Len(fri_index) :
             friday_flags[k] =
                IF /\ fri_is_datetime
                   /\ fri_index[k][1] % 7 = 4
                   /\ Cardinality({ j \in (k + 1)..Len(fri_index) :
                                      fri_index[j][1] = fri_index[k][1] }) < 15
                THEN 1 ELSE 0

\* The claim on the indexes whose timestamps are all different.
FridayFlagsOnUniqueIndex ==
    (\A j, k \in 1..Len(fri_index) : j # k => fri_index[j] # fri_index[k])
       => C37_FridayFlagsRowCount

(***************************************************************************)
(* apply_rolling_drawdown_filter                                            *)
(* (modules/dynamic_portfolio_modules/filters.py)                           *)
(* Balances are integers; restart_multiplier is a ratio.                    *)
(***************************************************************************)
\* rolling(window=window_days, min_periods=1).max() at row k
RollingMax(b, w, k) ==
    MaxOf({ b[j] : j \in (IF k - w + 1 > 0 THEN k - w + 1 ELSE 0)..k })

\* df_temp['rolling_drawdown_usd'] at row k
RollingDrawdown(b, w, k) == b[k] - RollingMax(b, w, k)

\* current_dd_usd < stop_threshold_usd
StopTest(dd) == dd < stop_threshold_usd

\* current_dd_usd > restart_threshold_usd, the threshold being
\* stop_threshold_usd * restart_multiplier
RestartTest(dd) ==
    dd * restart_multiplier[2] > stop_threshold_usd * restart_multiplier[1]

\* Mutant: the restarted strategy resumes from the raw balance.
ResumeBalance_FromRaw(k) == flt_balance[k - 1]

\* current_active_balance = balance_when_stopped of a restart
ResumeBalance(k) == balance_when_stopped

\* The loop body on row k: the state variables and the two cells written.
FilterBarResult(k) ==
    LET current_dd_usd == RollingDrawdown(flt_balance, window_days, k)
        active_now == restart_next_period \/ is_active
        base == IF restart_next_period THEN ResumeBalance(k)
                                       ELSE current_active_balance
        cab == IF k > 0 THEN base + (flt_balance[k] - flt_balance[k - 1])
                        ELSE base
    IN  IF active_now
        THEN [is_active |-> ~StopTest(current_dd_usd),
              balance_when_stopped |-> IF StopTest(current_dd_usd)
                                       THEN cab ELSE balance_when_stopped,
              current_active_balance |-> cab,
              restart_next_period |-> FALSE,
              adjusted |-> cab]
        ELSE [is_active |-> FALSE,
              balance_when_stopped |-> balance_when_stopped,
              current_active_balance |-> current_active_balance,
              restart_next_period |-> RestartTest(current_dd_usd),
              adjusted |-> balance_when_stopped]

(***************************************************************************)
(* SpecFilter: the filter on every short balance series                     *)
(***************************************************************************)
MaxFilterBars == 5

BalanceValues == { 0, 4, 10 }

FilterWindows == { 2, MaxFilterBars }

StopThresholds == { -5, -4 }

RestartMultipliers == { <<1, 2>>, <<1, 1>> }

\* State at the top of `for i in range(len(df_temp))`.
FilterInit ==
    /\ CoreIdle
    /\ NbIdle
    /\ LinIdle
    /\ WinIdle
    /\ RebIdle
    /\ PoolIdle
    /\ SumIdle
    /\ CtorIdle
    /\ GridIdle
    /\ AllocIdle
    /\ WfoIdle
    /\ FriIdle
    /\ flt_len \in 1..MaxFilterBars
    /\ flt_balance \in [0..(flt_len - 1) -> BalanceValues]
    /\ window_days \in FilterWindows
    /\ stop_threshold_usd \in StopThresholds
    /\ restart_multiplier \in RestartMultipliers
    /\ flt_i = 0
    /\ is_active = TRUE
    /\ balance_when_stopped = flt_balance[0]
    /\ current_active_balance = flt_balance[0]
    /\ restart_next_period = FALSE
    /\ adjusted_balance = flt_balance
    /\ active_col = [k \in 0..(flt_len - 1) |-> TRUE]
    /\ flt_pc = "loop"

\* One iteration of the loop.
FilterBar ==
    /\ flt_pc = "loop"
    /\ flt_i < flt_len
    /\ LET r == FilterBarResult(flt_i) IN
          /\ is_active' = r.is_active
          /\ balance_when_stopped' = r.balance_when_stopped
          /\ current_active_balance' = r.current_active_balance
          /\ restart_next_period' = r.restart_next_period
          /\ adjusted_balance' = [adjusted_balance EXCEPT ![flt_i] = r.adjusted]
          /\ active_col' = [active_col EXCEPT ![flt_i] = r.is_active]
    /\ flt_i' = flt_i + 1
    /\ UNCHANGED <<flt_balance, flt_len, window_days, stop_threshold_usd,
                   restart_multiplier, flt_pc>>
    /\ UNCHANGED <<coreVars, wfoVars, gridVars, allocVars, ctorVars, sumVars, poolVars, rebVars, winVars, linVars, friVars, nbVars>>

\* The loop is over: df_temp['adjusted_balance'] is returned.
FilterReturn ==
    /\ flt_pc = "loop"
    /\ flt_i = flt_len
    /\ flt_pc' = "done"
    /\ UNCHANGED <<flt_balance, flt_len, window_days, stop_threshold_usd,
                   restart_multiplier, flt_i, is_active, balance_when_stopped,
                   current_active_balance, restart_next_period,
                   adjusted_balance, active_col>>
    /\ UNCHANGED <<coreVars, wfoVars, gridVars, allocVars, ctorVars, sumVars, poolVars, rebVars, winVars, linVars, friVars, nbVars>>

FilterNext == FilterBar \/ FilterReturn

SpecFilter == FilterInit /\ [][FilterNext]_vars

\* C38: the filter is a machine of two states, active and stopped.  An
\* active bar books the raw balance's bar-to-bar change and stops iff its
\* rolling drawdown is below the stop threshold, recording the balance it
\* stopped at; a stopped bar keeps the adjusted balance at that recorded
\* balance and triggers a restart iff its rolling drawdown is above
\* stop_threshold * restart_multiplier; the restart takes effect on the bar
\* after it, which resumes from the stop balance plus the raw change of
\* that bar and is an active bar again.
C38_FilterStateMachine ==
    [][ (flt_pc = "loop" /\ flt_i < flt_len) =>
          LET dd == RollingDrawdown(flt_balance, window_days, flt_i)
              change == IF flt_i > 0
                        THEN flt_balance[flt_i] - flt_balance[flt_i - 1]
                        ELSE 0
              previous == IF flt_i > 0 THEN adjusted_balance[flt_i - 1]
                                       ELSE flt_balance[0]
          IN  IF is_active \/ restart_next_period
              THEN /\ adjusted_balance'[flt_i] = previous + change
                   /\ ~is_active => previous = balance_when_stopped
                   /\ active_col'[flt_i] = ~(dd < stop_threshold_usd)
                   /\ is_active' = active_col'[flt_i]
                   /\ ~restart_next_period'
                   /\ balance_when_stopped' =
                         IF dd < stop_threshold_usd
                         THEN adjusted_balance'[flt_i]
                         ELSE balance_when_stopped
              ELSE /\ adjusted_balance'[flt_i] = balance_when_stopped
                   /\ adjusted_balance'[flt_i] = previous
                   /\ active_col'[flt_i] = FALSE
                   /\ is_active' = FALSE
                   /\ balance_when_stopped' = balance_when_stopped
                   /\ restart_next_period' =
                         (dd * restart_multiplier[2]
                            > stop_threshold_usd * restart_multiplier[1])
      ]_vars

\* A restart has just taken effect: the bar before was a stopped bar, the
\* bar before that was stopped too, the raw balance moved while the filter
\* was stopped, and the restarted bar is active on a balance that differs
\* from the raw one.
C38_Witness ==
    /\ flt_pc = "loop"
    /\ flt_i >= 4
    /\ active_col[flt_i - 1]
    /\ ~active_col[flt_i - 2]
    /\ ~active_col[flt_i - 3]
    /\ flt_balance[flt_i - 2] # flt_balance[flt_i - 3]
    /\ adjusted_balance[flt_i - 1] # flt_balance[flt_i - 1]
    /\ adjusted_balance[flt_i - 1] # adjusted_balance[flt_i - 2]

(***************************************************************************)
(* Look-ahead of the rebalancer (checked under SpecRebalance)               *)
(***************************************************************************)
\* C39: no day's return is made with weights computed from that day's or a
\* later day's returns: on every day t, the days before the first epoch
\* included, the return is the product of returns[t] with the equal-weight
\* vector or with the vector of an epoch at or before t, whose window ends
\* before t.  (Stated as claimed; the days before the first epoch are
\* weighted with the first epoch's vector, computed from later rows.)
C39_NoLookAhead ==
    rpc = "returned" =>
       \A t \in 0..(n_days - 1) :
          \E w \in { EqualOnes(n_assets) }
                     \cup { weights_history[k] :
                              k \in { j \in 1..Len(rebalance_dates_idx) :
                                         rebalance_dates_idx[j] <= t } } :
             portfolio_returns[t + 1] = Dot(w, returns_matrix[t + 1])

(***************************************************************************)
(* backtest_core of notebooks/backtester, the copy without Friday logic     *)
(***************************************************************************)
\* Mutant: the copy books its entries on the signal bar.
NbEntryIdxAt_NoLag(k) == k

\* entry_idx = i + 1 of the copy
NbEntryIdxAt(k) == k + 1

\* The state of the copy after its loop body has run on bar k.
NbScanResult(k) ==
    LET flat(ts) == [position |-> 0, entry_idx |-> -1, entry_price |-> 0,
                     trades |-> ts]
        same == [position |-> nb_position, entry_idx |-> nb_entry_idx,
                 entry_price |-> nb_entry_price, trades |-> nb_trades]
    IN
    IF nb_position = 0
    THEN IF midprice[k-1] > lower_band[k-1] /\ midprice[k] < lower_band[k]
         THEN [position |-> 1, entry_idx |-> NbEntryIdxAt(k),
               entry_price |-> IF NbEntryIdxAt(k) < n THEN ask[NbEntryIdxAt(k)]
                                                      ELSE nb_entry_price,
               trades |-> nb_trades]
         ELSE IF midprice[k-1] < upper_band[k-1] /\ midprice[k] > upper_band[k]
         THEN [position |-> -1, entry_idx |-> NbEntryIdxAt(k),
               entry_price |-> IF NbEntryIdxAt(k) < n THEN bid[NbEntryIdxAt(k)]
                                                      ELSE nb_entry_price,
               trades |-> nb_trades]
         ELSE same
    ELSE IF nb_position = 1
    THEN IF midprice[k-1] < middle_band[k-1] /\ midprice[k] > middle_band[k]
         THEN flat(IF k + 1 < n
                   THEN Append(nb_trades,
                               << (bid[k + 1] - nb_entry_price) * PipFactor,
                                  1, nb_entry_idx, k + 1 >>)
                   ELSE nb_trades)
         ELSE same
    ELSE IF nb_position = -1
    THEN IF midprice[k-1] > middle_band[k-1] /\ midprice[k] < middle_band[k]
         THEN flat(IF k + 1 < n
                   THEN Append(nb_trades,
                               << (nb_entry_price - ask[k + 1]) * PipFactor,
                                  -1, nb_entry_idx, k + 1 >>)
                   ELSE nb_trades)
         ELSE same
    ELSE same

\* The trade list of the copy after its end-of-data handling.
NbEndResult ==
    IF nb_position = 1 /\ nb_entry_idx < n
    THEN Append(nb_trades, << (bid[n - 1] - nb_entry_price) * PipFactor,
                              1, nb_entry_idx, n - 1 >>)
    ELSE IF nb_position = -1 /\ nb_entry_idx < n
    THEN Append(nb_trades, << (nb_entry_price - ask[n - 1]) * PipFactor,
                              -1, nb_entry_idx, n - 1 >>)
    ELSE nb_trades

(***************************************************************************)
(* SpecTwin: both copies of backtest_core on the same arrays, the copy of   *)
(* modules/backtester with dates_array absent or all zero                   *)
(***************************************************************************)
TwinInit ==
    /\ WfoIdle
    /\ FiltIdle
    /\ FriIdle
    /\ LinIdle
    /\ WinIdle
    /\ RebIdle
    /\ PoolIdle
    /\ SumIdle
    /\ CtorIdle
    /\ GridIdle
    /\ AllocIdle
    /\ n \in MinRows..MaxBars
    /\ \E shape \in [0..(n-1) -> BarShapes] :
          /\ midprice    = [k \in 0..(n-1) |-> shape[k][1]]
          /\ lower_band  = [k \in 0..(n-1) |-> shape[k][2]]
          /\ middle_band = [k \in 0..(n-1) |-> shape[k][3]]
          /\ upper_band  = [k \in 0..(n-1) |-> shape[k][4]]
          /\ bid = [k \in 0..(n-1) |-> shape[k][1] - HalfSpread]
          /\ ask = [k \in 0..(n-1) |-> shape[k][1] + HalfSpread]
    /\ friday_close = [k \in 0..(n-1) |-> 0]
    /\ i = 1
    /\ position = 0 /\ entry_idx = -1 /\ entry_price = 0
    /\ trades = << >>
    /\ entries_made = 0
    /\ pc = "idle"
    /\ nb_position = 0 /\ nb_entry_idx = -1 /\ nb_entry_price = 0
    /\ nb_trades = << >>
    /\ tpc = IF 1 <= n - 2 THEN "scan" ELSE "end"

\* Bar i in both copies.
TwinScanBar ==
    /\ tpc = "scan"
    /\ i <= n - 2
    /\ LET r == ScanResult(i) IN
          /\ position' = r.position
          /\ entry_idx' = r.entry_idx
          /\ entry_price' = r.entry_price
          /\ trades' = r.trades
          /\ entries_made' = IF position = 0 /\ r.position # 0
                              THEN entries_made + 1 ELSE entries_made
    /\ LET c == NbScanResult(i) IN
          /\ nb_position' = c.position
          /\ nb_entry_idx' = c.entry_idx
          /\ nb_entry_price' = c.entry_price
          /\ nb_trades' = c.trades
    /\ i' = i + 1
    /\ tpc' = IF i + 1 <= n - 2 THEN "scan" ELSE "end"
    /\ UNCHANGED <<n, bid, ask, midprice, upper_band, lower_band, middle_band,
                   friday_close, pc>>
    /\ UNCHANGED <<wfoVars, gridVars, allocVars, ctorVars, sumVars, poolVars, rebVars, winVars, linVars, friVars, filtVars>>

\* The end-of-data handling and the return of both copies.
TwinEnd ==
    /\ tpc = "end"
    /\ trades' = EndResult
    /\ nb_trades' = NbEndResult
    /\ tpc' = "done"
    /\ UNCHANGED <<n, bid, ask, midprice, upper_band, lower_band, middle_band,
                   friday_close, i, position, entry_idx, entry_price,
                   entries_made, pc, nb_position, nb_entry_idx, nb_entry_price>>
    /\ UNCHANGED <<wfoVars, gridVars, allocVars, ctorVars, sumVars, poolVars, rebVars, winVars, linVars, friVars, filtVars>>

TwinNext == TwinScanBar \/ TwinEnd

SpecTwin == TwinInit /\ [][TwinNext]_vars

\* C40: without Friday closure the two copies agree: called on the same
\* arrays, the copy of modules/backtester with an all-zero or absent flag
\* array and the copy of notebooks/backtester return the same Trade list.
C40_CopiesAgree ==
    tpc = "done" => trades = nb_trades

\* Both copies have returned the same two trades, the second closed by the
\* end-of-data handling.
C40_Witness ==
    /\ tpc = "done"
    /\ Len(nb_trades) = 2
    /\ Len(trades) = 2
    /\ nb_position # 0
    /\ ExitOf(nb_trades[1]) < EntryOf(nb_trades[2])

====
